---------------------------- MODULE Spec2Model ----------------------------
(***************************************************************************)
(* Model of the LIMRA document search agent:                               *)
(*   src/limra_search_agent.py  LimraSearchAgent (login, session check,    *)
(*                              download cascade, batch download)          *)
(*   src/web_app.py             Flask front-end, executor, agent_status    *)
(*                                                                         *)
(* The module holds several specifications over one set of variables; each *)
(* specification moves only its own group of variables.                    *)
(*   SpecCheck     _check_if_logged_in applied to page snapshots           *)
(*   SpecLogin     LimraSearchAgent.login as a step machine                *)
(*   SpecDownload  LimraSearchAgent.download_document over a file system   *)
(*   SpecWeb       the front-end commands and the executor's workers       *)
(*   SpecFilter    _filter_documents                                       *)
(*   SpecBrowse    search_documents and browse_research_section            *)
(*   SpecBatch     download_all_results                                    *)
(*   SpecErrors    the error log of SharedState                            *)
(*   SpecState     src/sub_agents.py: SharedState, its listeners, UISync   *)
(*   SpecPollers   the browser-health and session-health pollers           *)
(*   SpecStore     the files of the download root                          *)
(*   SpecCaptcha   the CAPTCHA wait of login()                             *)
(*   SpecLoop      start(), stop() and _main_loop of a SubAgent            *)
(*   SpecQueue     the download queue of DownloadManagerAgent              *)
(***************************************************************************)
EXTENDS Integers, Sequences, FiniteSets, TLC

(***************************************************************************)
(* Bounds of the model.                                                    *)
(***************************************************************************)
\* largest number of marker fragments in one modelled page
MaxMarkers == 2
\* largest number of download_document calls in one run
MaxDownloads == 2
\* largest number of commands the front-end accepts in one run
MaxCommands == 3
\* largest number of documents in a search result or download request
MaxDocs == 2
\* number of selectors modelled of each selector cascade of login()
MaxSelectors == 2
\* length of the document lists handed to _filter_documents
MaxFilterDocs == 3
\* number of hyperlinks on the section pages together
MaxLinks == 3
\* number of records of a download batch
MaxBatch == 3
\* number of entries ever appended to the error log
MaxErrors == 102

(***************************************************************************)
(* Page snapshots.  A page is a URL, a set of markup fragments and the     *)
(* cookie names of the browser context.  Python's substring test           *)
(* (needle in haystack.lower()) is modelled by tables giving, for every    *)
(* modelled string, the needles of the code that occur in its lower-case   *)
(* form (LowerHas) or in the string as written (RawHas).                   *)
(***************************************************************************)
URLS ==
  { "https://www.limra.com/",
    "https://www.limra.com/login/",
    "https://www.limra.com/en/log-in/",
    "https://www.limra.com/Login/",
    "https://www.limra.com/en/my-account/",
    "https://www.limra.com/en/discovery/",
    "https://limra.com/en/research/",
    "https://www.loma.org/en/",
    "about:blank" }

\* needles of the code occurring in url.lower()
UrlLowerNeedles(u) ==
  CASE u = "https://www.limra.com/"               -> {"limra.com", "www.limra.com"}
    [] u = "https://www.limra.com/login/"         -> {"limra.com", "www.limra.com", "login"}
    [] u = "https://www.limra.com/en/log-in/"     -> {"limra.com", "www.limra.com", "log-in"}
    [] u = "https://www.limra.com/Login/"         -> {"limra.com", "www.limra.com", "login"}
    [] u = "https://www.limra.com/en/my-account/" -> {"limra.com", "www.limra.com", "account"}
    [] u = "https://www.limra.com/en/discovery/"  -> {"limra.com", "www.limra.com", "discovery"}
    [] u = "https://limra.com/en/research/"       -> {"limra.com"}
    [] OTHER                                      -> {}

\* needles of the code occurring in the url as written (case-sensitive)
UrlRawNeedles(u) ==
  IF u = "https://www.limra.com/Login/"
  THEN {"limra.com", "www.limra.com"}
  ELSE UrlLowerNeedles(u)

\* markup fragments a modelled page may contain
ATOMS ==
  { "<a href=\"/logout\">Log Out</a>",
    "<a>Sign Out</a>",
    "<a href=\"/login\">",
    "<a>Log In</a>",
    "My Account",
    "Welcome, member",
    "Welcome to LIMRA",
    "My LIMRA",
    "ko:logout" }

\* needles of the code occurring in fragment.lower()
AtomLowerNeedles(a) ==
  CASE a = "<a href=\"/logout\">Log Out</a>" -> {"logout", "log out"}
    [] a = "<a>Sign Out</a>"                 -> {"sign out"}
    [] a = "<a href=\"/login\">"             -> {"href=\"/login\"", "login"}
    [] a = "<a>Log In</a>"                   -> {">log in<", "log in"}
    [] a = "My Account"                      -> {"my account"}
    [] a = "Welcome, member"                 -> {"welcome,", "welcome"}
    [] a = "Welcome to LIMRA"                -> {"welcome"}
    [] a = "My LIMRA"                        -> {"my limra"}
    [] a = "ko:logout"                       -> {"ko:logout"}
    [] OTHER                                 -> {}

\* cookie names a modelled browser context may hold
COOKIE_NAMES == { "ASP.NET_SessionId", "_ga" }

\* needles of auth_cookie_names occurring in name.lower()
CookieLowerNeedles(n) ==
  CASE n = "ASP.NET_SessionId" -> {"session", ".aspnet"}
    [] OTHER                   -> {}

\* needle in url.lower()
UrlLowerHas(u, needle) == needle \in UrlLowerNeedles(u)
\* needle in url
UrlRawHas(u, needle) == needle \in UrlRawNeedles(u)
\* needle in content.lower()
ContentLowerHas(content, needle) == \E a \in content : needle \in AtomLowerNeedles(a)

CONTENTS == { c \in SUBSET ATOMS : Cardinality(c) <= MaxMarkers }

Snapshots == [ url : URLS, content : CONTENTS, cookies : SUBSET COOKIE_NAMES ]

\* any(needle in text for needle in list)
RECURSIVE AnyIn(_, _, _)
AnyIn(list, content, i) ==
  IF i > Len(list) THEN FALSE
  ELSE IF ContentLowerHas(content, list[i]) THEN TRUE
  ELSE AnyIn(list, content, i + 1)

(***************************************************************************)
(* LimraSearchAgent._check_if_logged_in (limra_search_agent.py 163-223).   *)
(* fail names the call of the check that raises: "content" for             *)
(* page.content(), "cookies" for context.cookies(), "none" otherwise.      *)
(***************************************************************************)
logout_indicators ==
  << "logout", "log out", "sign out", "signout", "ko:logout", "ko:log out", "ko:exit" >>

login_indicators ==
  << "href=\"/login\"", "href=\"/log-in\"", "href=\"/en/log-in\"",
     ">log in<", ">login<", ">sign in<", ">ko:login<" >>

account_indicators ==
  << "my account", "myaccount", "my profile", "myprofile", "welcome,",
     "ko:my account", "ko:profile" >>

auth_cookie_names == << "auth", "token", "session", "user", ".aspnet" >>

\* the nested loop over cookies and auth_cookie_names, lines 209-216
AuthCookieAccepts(s) ==
  \E n \in s.cookies :
    \E i \in 1..Len(auth_cookie_names) :
      /\ auth_cookie_names[i] \in CookieLowerNeedles(n)
      /\ UrlRawHas(s.url, "limra.com")
      /\ ~UrlLowerHas(s.url, "login")

\* the same check with logout and login rules exchanged
CheckIfLoggedInSwapped(s, fail) ==
  IF fail = "content" THEN FALSE
  ELSE IF UrlLowerHas(s.url, "login") \/ UrlLowerHas(s.url, "log-in") THEN FALSE
  ELSE IF AnyIn(login_indicators, s.content, 1) THEN FALSE
  ELSE IF AnyIn(logout_indicators, s.content, 1) THEN TRUE
  ELSE IF AnyIn(account_indicators, s.content, 1) THEN TRUE
  ELSE IF fail = "cookies" THEN FALSE
  ELSE AuthCookieAccepts(s)

CheckIfLoggedIn(s, fail) ==
  IF fail = "content" THEN FALSE
  ELSE IF UrlLowerHas(s.url, "login") \/ UrlLowerHas(s.url, "log-in") THEN FALSE
  ELSE IF AnyIn(logout_indicators, s.content, 1) THEN TRUE
  ELSE IF AnyIn(login_indicators, s.content, 1) THEN FALSE
  ELSE IF AnyIn(account_indicators, s.content, 1) THEN TRUE
  ELSE IF fail = "cookies" THEN FALSE
  ELSE AuthCookieAccepts(s)

(***************************************************************************)
(* Variables.                                                              *)
(***************************************************************************)
VARIABLES
  chk_page,     \* SpecCheck: the snapshot the check is applied to
  chk_fail,     \* SpecCheck: which call of the check raises
  chk_done,     \* SpecCheck: the check has returned
  chk_result    \* SpecCheck: the value returned

checkVars == << chk_page, chk_fail, chk_done, chk_result >>

VARIABLES
  files,        \* the download folder: path -> "absent" | "empty" | "data"
  headless,     \* LimraSearchAgent.headless
  d_pc,         \* position of download_document
  d_url,        \* its url argument
  d_filepath,   \* its local filepath
  d_ret,        \* its return value, NoPath for None
  d_by,         \* the strategy that returned the path
  d_pre,        \* the paths that existed when the call began
  d_written,    \* the paths the call has written
  d_resp,       \* the response of the fetch of the page url
  d_calls       \* number of calls begun

dlVars == << files, headless, d_pc, d_url, d_filepath, d_ret, d_by, d_pre,
             d_written, d_resp, d_calls >>

VARIABLES
  agent,         \* web_app.agent: 0 for None, else the number of the instance
  agents_made,   \* number of LimraSearchAgent instances created
  ai_helper,     \* web_app.ai_helper is set
  agent_status,  \* web_app.agent_status: logged_in, is_running, results
  work_queue,    \* tasks submitted to the executor and not yet taken
  workers,       \* the executor's threads and the task each one runs
  commands,      \* number of commands accepted
  agent_manager, \* web_app.agent_manager is set (init_agent_manager was called)
  message,       \* agent_status['message']: the task kind and its phase
  shared_state,  \* agent_manager.shared_state: is_running, message
  last_login     \* what the latest login() of the current agent returned:
                 \* "none" while it has not returned, "true" or "false"

statusVars == << agent_manager, message, shared_state >>

webVars == << agent, agents_made, ai_helper, agent_status, work_queue, workers,
              commands, statusVars, last_login >>

VARIABLES
  l_pc,           \* position of login()
  l_ret,          \* "none", or how login() ended: "true", "false", "raised"
  is_logged_in,   \* LimraSearchAgent.is_logged_in
  session_file,   \* limra_session.json: "absent", "stored", "nocookies",
                  \* "corrupt", or "fresh" once this login() has written it
  log_ok,         \* the login_debug log file can be written
  l_page,         \* the snapshot of self.page
  l_ops,          \* the operations login() has issued so far
  l_session,      \* what load_session found: "unknown", "valid", "invalid"
  email_input,    \* the element of the email cascade
  password_input  \* the element of the password cascade

loginVars == << l_pc, l_ret, is_logged_in, session_file, log_ok, l_page, l_ops,
                l_session, email_input, password_input >>

VARIABLES
  f_pc,        \* "input", "once" (filtered), "twice" (the output filtered again)
  f_docs,      \* documents
  f_keywords,  \* keywords (<< >> for None or an empty list)
  f_start,     \* start_year (0 for None)
  f_end,       \* end_year (0 for None)
  f_out,       \* the list returned for f_docs
  f_out2       \* the list returned for f_out

filterVars == << f_pc, f_docs, f_keywords, f_start, f_end, f_out, f_out2 >>

VARIABLES
  b_pc,           \* discovery: "search", then "page", "dedup", "filter", "done"
  b_links,        \* the hyperlinks of the section pages, in page order
  b_cut,          \* the first b_cut links are on page 1, the rest on page 2
  b_keywords,     \* keywords (<< >> for None)
  b_i,            \* the section page visited next
  b_loaded,       \* the pages whose links were read
  all_documents,  \* browse_research_section.all_documents
  unique_docs,    \* browse_research_section.unique_docs
  b_out,          \* the list browse_research_section returned
  s_max,          \* search_documents: max_results
  s_out           \* the list search_documents returned

browseVars == << b_pc, b_links, b_cut, b_keywords, b_i, b_loaded, all_documents,
                 unique_docs, b_out, s_max, s_out >>

VARIABLES
  bt_pc,             \* download_all_results: "loop", "item", "done"
  search_results,    \* self.search_results: the batch
  bt_i,              \* number of records the loop has taken
  bt_attempts,       \* the urls handed to download_document, in call order
  bt_outcomes,       \* what each call returned: a path, or "None"
  downloaded_files   \* download_all_results.downloaded_files

batchVars == << bt_pc, search_results, bt_i, bt_attempts, bt_outcomes,
                downloaded_files >>

VARIABLES
  errors,      \* SharedState._state['errors']: the time stamps of the entries
  e_clock,     \* number of entries appended so far (the next time stamp)
  e_base,      \* value of e_clock at the last clear_errors
  e_lock,      \* SharedState._lock: 0 when free, else the thread holding it
  e_threads,   \* position of each thread
  e_unlogged   \* some failed operation has ended without an add_error call

errVars == << errors, e_clock, e_base, e_lock, e_threads, e_unlogged >>

VARIABLES
  st,           \* SharedState._state: the value under each key
  ss_lock,      \* SharedState._lock: 0 when free, else the thread holding it
  ss_pc,        \* position of each thread inside a SharedState operation
  ss_upd,       \* the update({...}) under way of each thread and its next key
  ss_ops,       \* number of operations begun
  notes,        \* the keys each listener was called with in the latest step
  note_val,     \* the value last passed to the listeners for each key
  raisers,      \* the listeners or callbacks that raised in the latest step
  last_state,   \* UISyncAgent._last_state: the value seen under each key
  last_same,    \* _last_state[key] is the very object _state[key] holds
  u_prev,       \* the values of the state at the previous run of UISync
  u_runs,       \* number of runs of UISync
  u_reported,   \* the keys of the changes handed to the callbacks by the run
  u_expected,   \* the keys whose value differed from u_prev at the run
  u_called,     \* the callbacks the latest run invoked
  r_reads,      \* number of get_all calls of the reader threads
  r_seen,       \* the copy the latest get_all returned
  r_torn        \* a get_all returned while an update({...}) was half written

stateVars == << st, ss_lock, ss_pc, ss_upd, ss_ops, notes, note_val, raisers,
                last_state, last_same, u_prev, u_runs, u_reported, u_expected,
                u_called, r_reads, r_seen, r_torn >>

VARIABLES
  p_page,          \* the page the pollers hold: "none", "open" or "closed"
  p_snap,          \* the snapshot of the live page
  sh_logged_in,    \* SharedState: logged_in
  browser_status,  \* SharedState: browser_status
  p_ops,           \* the page operations the pollers have issued
  pipe_ops,        \* the page operations the pipeline thread has issued
  p_runs,          \* number of poller runs
  b_last,          \* the latest run of BrowserControllerAgent
  s_last,          \* the latest run of SessionManagerAgent
  p_session        \* the session file of SessionManagerAgent: "absent", "resaved"

pollVars == << p_page, p_snap, sh_logged_in, browser_status, p_ops,
               pipe_ops, p_runs, b_last, s_last, p_session >>

VARIABLES
  fs_files,    \* the names of the files in the download root
  fs_session,  \* the content of the session file: the operation that wrote it
  fs_last      \* the number and the kind of the latest operation on the root

storeVars == << fs_files, fs_session, fs_last >>

VARIABLES
  c_pc,      \* position of the CAPTCHA wait: "detect", "poll", "done"
  c_i,       \* number of polling iterations begun
  c_url,     \* page.url as the latest iteration read it, UrlRaises for a failure
  c_resp,    \* the g-recaptcha-response the latest iteration read
  c_end,     \* why the wait ended
  c_missed   \* an iteration saw the page off the login URL, or a solved
             \* challenge, and the loop went on

captchaVars == << c_pc, c_i, c_url, c_resp, c_end, c_missed >>

VARIABLES
  a_running,  \* SubAgent._running
  a_thread,   \* SubAgent._thread: 0 for None, else the number of the thread
  a_pc,       \* position of each thread: "unborn", "test", "run", "sleep", "dead"
  a_ctl,      \* the caller of start() and stop(): "idle" or "joining"
  a_calls,    \* number of start() and stop() calls begun
  a_runs,     \* number of runs begun
  a_errors,   \* number of entries the loops have handed to add_error
  a_raised,   \* the run that ended last raised
  a_stopped,  \* the threads that were alive when stop() cleared the flag
  a_after     \* per thread, the runs begun since stop() cleared the flag

loopVars == << a_running, a_thread, a_pc, a_ctl, a_calls, a_runs, a_errors,
               a_raised, a_stopped, a_after >>

VARIABLES
  dq_len,    \* len of the list stored under download_queue
  dq_ref,    \* the dict object stored under download_progress
  dq_heap,   \* the dict objects: their 'current' and 'total' entries
  dq_new,    \* number of dict objects created
  dq_lock,   \* DownloadManagerAgent._queue_lock: 0 when free, else the holder
  dq_pc,     \* position of each calling thread
  dq_held,   \* the dict object update_progress holds in each thread, 0 for none
  dq_ops     \* number of calls begun

queueVars == << dq_len, dq_ref, dq_heap, dq_new, dq_lock, dq_pc, dq_held, dq_ops >>

\* the state of the sections on the CAPTCHA wait, the poller threads and the
\* download queue
extraVars == << captchaVars, loopVars, queueVars >>

\* the state of the sections on filtering, discovery, batches and the error log
midVars == << filterVars, browseVars, batchVars, errVars >>

\* the state of the sections on the shared state, the pollers and the store
agentVars == << stateVars, pollVars, storeVars, extraVars >>

\* the state of the later sections, left alone by the sections above them
laterVars == << midVars, agentVars >>

\* the state of the sections above, left alone by the later ones
baseVars == << checkVars, dlVars, webVars, loginVars >>

vars == << checkVars, dlVars, webVars, loginVars, laterVars >>

(***************************************************************************)
(* SpecCheck: _check_if_logged_in on every modelled snapshot.              *)
(***************************************************************************)
CheckFails == { "none", "content", "cookies" }

CheckInit ==
  /\ chk_page \in Snapshots
  /\ chk_fail \in CheckFails
  /\ chk_done = FALSE
  /\ chk_result = FALSE

CheckParked ==
  /\ chk_page = [ url |-> "about:blank", content |-> {}, cookies |-> {} ]
  /\ chk_fail = "none"
  /\ chk_done = FALSE
  /\ chk_result = FALSE

RunCheck ==
  /\ ~chk_done
  /\ chk_done' = TRUE
  /\ chk_result' = CheckIfLoggedIn(chk_page, chk_fail)
  /\ UNCHANGED << chk_page, chk_fail >>

CheckNext == RunCheck /\ UNCHANGED << dlVars, webVars, loginVars, laterVars >>

(***************************************************************************)
(* C4.  The rules of session validation, stated on the snapshot.           *)
(***************************************************************************)
\* (a) the URL contains a login-path marker
RuleLoginUrl(s) == {"login", "log-in"} \cap UrlLowerNeedles(s.url) # {}
\* (b) logout text is present
RuleLogoutText(s) ==
  \E a \in s.content :
    {"logout", "log out", "sign out", "signout", "ko:logout", "ko:log out", "ko:exit"}
      \cap AtomLowerNeedles(a) # {}
\* (c) login-affordance markup is present
RuleLoginMarkup(s) ==
  \E a \in s.content :
    {"href=\"/login\"", "href=\"/log-in\"", "href=\"/en/log-in\"", ">log in<",
     ">login<", ">sign in<", ">ko:login<"} \cap AtomLowerNeedles(a) # {}
\* (d) an account/profile marker is present
RuleAccount(s) ==
  \E a \in s.content :
    {"my account", "myaccount", "my profile", "myprofile", "welcome,",
     "ko:my account", "ko:profile"} \cap AtomLowerNeedles(a) # {}
\* an authentication-flavoured cookie is present
HasAuthCookie(s) ==
  \E n \in s.cookies :
    {"auth", "token", "session", "user", ".aspnet"} \cap CookieLowerNeedles(n) # {}
\* the URL is on limra.com
OnLimra(s) == "limra.com" \in UrlRawNeedles(s.url)

\* the verdict of the ordered rules, rule (e) given as a parameter
OrderedVerdict(s, fail, ruleE) ==
  IF fail = "content" THEN FALSE
  ELSE IF RuleLoginUrl(s) THEN FALSE
  ELSE IF RuleLogoutText(s) THEN TRUE
  ELSE IF RuleLoginMarkup(s) THEN FALSE
  ELSE IF RuleAccount(s) THEN TRUE
  ELSE fail = "none" /\ ruleE

\* C4 as claimed: rules (a)..(e) in order, first match decides, rule (e) being
\* "authentication cookie present and URL not a login path"; otherwise, or when
\* the check itself fails, not authenticated.
C4_AsClaimed ==
  chk_done =>
    chk_result = OrderedVerdict(chk_page, chk_fail,
                                HasAuthCookie(chk_page) /\ ~RuleLoginUrl(chk_page))

\* C4 amended: the same ordered rules, rule (e) accepting only when the
\* authentication cookie is present, the URL is on limra.com and the URL is not
\* a login path; a page with both logout text and login markup, read without
\* failure, is authenticated exactly when its URL is not a login path.
C4_RuleOrder ==
  chk_done =>
    /\ chk_result = OrderedVerdict(chk_page, chk_fail,
                                   /\ HasAuthCookie(chk_page)
                                   /\ OnLimra(chk_page)
                                   /\ ~RuleLoginUrl(chk_page))
    /\ (RuleLogoutText(chk_page) /\ RuleLoginMarkup(chk_page) /\ chk_fail # "content")
          => (chk_result = ~RuleLoginUrl(chk_page))

\* a page with logout text and login markup outside a login path was accepted
C4_Witness ==
  /\ chk_done
  /\ chk_result = TRUE
  /\ RuleLogoutText(chk_page)
  /\ RuleLoginMarkup(chk_page)
  /\ ~RuleLoginUrl(chk_page)

(***************************************************************************)
(* The download folder and LimraSearchAgent.download_document              *)
(* (limra_search_agent.py 1458-1673), called by download_all_results with  *)
(* filename = sanitized title + ".pdf" (1777-1779).                        *)
(* An I/O call either completes or raises without effect.                  *)
(***************************************************************************)
TITLES == { "Q1/Q2 Outlook", "Q1:Q2 Outlook", "Retention" }

\* re.sub(r'[<>:"/\\|?*]', '_', title)
safe_title(t) ==
  CASE t = "Q1/Q2 Outlook" -> "Q1_Q2 Outlook"
    [] t = "Q1:Q2 Outlook" -> "Q1_Q2 Outlook"
    [] OTHER               -> t

STEMS == { safe_title(t) : t \in TITLES }
EXTS == { ".pdf", ".docx" }

\* stem, collision counter (0: none) and extension of a file of the folder
Paths == [ stem : STEMS, n : 0..MaxDownloads, ext : EXTS ]
NoPath == [ stem |-> "", n |-> 0, ext |-> "" ]

DOC_URLS == { "https://www.limra.com/en/research/retention/",
              "https://www.limra.com/files/outlook.pdf" }

\* url.endswith('.pdf')
EndsWithPdf(u) == u = "https://www.limra.com/files/outlook.pdf"

\* responses of context.request.get: ok, content-type, first four bytes are
\* %PDF, length of the body
ResponseLens == { 0, 4, 500, 2000 }
Responses ==
  { r \in [ ok : BOOLEAN, ctype : {"application/pdf", "text/html"},
            sig : BOOLEAN, len : ResponseLens ] : r.sig => r.len >= 4 }
NoResponse == [ ok |-> FALSE, ctype |-> "", sig |-> FALSE, len |-> 0 ]

Exists(fs, p) == fs[p] # "absent"

\* Path.with_suffix(ext)
with_suffix(p, ext) == [ p EXCEPT !.ext = ext ]

\* the extension of download.suggested_filename, "" when there is none
SuggestedExts == EXTS \cup { "" }

\* lines 1514-1519: keep the transfer's extension when it has one
UseSuggested(p, ext) == IF ext # "" THEN with_suffix(p, ext) ELSE p

\* the collision loop, lines 1477-1483
RECURSIVE FreePath(_, _, _)
FreePath(fs, original, counter) ==
  LET candidate == IF counter = 0 THEN original ELSE [ original EXCEPT !.n = counter ]
  IN IF counter > MaxDownloads THEN candidate
     ELSE IF Exists(fs, candidate) THEN FreePath(fs, original, counter + 1)
     ELSE candidate

DlSet(pc, fp, fs, ret, by, wr) ==
  /\ d_pc' = pc
  /\ d_filepath' = fp
  /\ files' = fs
  /\ d_ret' = ret
  /\ d_by' = by
  /\ d_written' = wr

\* download_document returns value ret
DlReturn(fp, fs, ret, by, wr) == DlSet("returned", fp, fs, ret, by, wr)
\* download_document goes on at pc with filepath fp
DlGoto(pc, fp) == DlSet(pc, fp, files, d_ret, d_by, d_written)

DlInit ==
  /\ files = [ p \in Paths |-> "absent" ]
  /\ headless \in BOOLEAN
  /\ d_pc = "idle"
  /\ d_url = ""
  /\ d_filepath = NoPath
  /\ d_ret = NoPath
  /\ d_by = "none"
  /\ d_pre = {}
  /\ d_written = {}
  /\ d_resp = NoResponse
  /\ d_calls = 0

DlParked ==
  /\ files = [ p \in Paths |-> "absent" ]
  /\ headless = FALSE
  /\ d_pc = "idle"
  /\ d_url = ""
  /\ d_filepath = NoPath
  /\ d_ret = NoPath
  /\ d_by = "none"
  /\ d_pre = {}
  /\ d_written = {}
  /\ d_resp = NoResponse
  /\ d_calls = 0

\* lines 1460-1494: file name, collision loop, visit of the page, search for a
\* clickable download element
DownloadDocument ==
  /\ d_pc \in { "idle", "returned" }
  /\ d_calls < MaxDownloads
  /\ \E t \in TITLES, u \in DOC_URLS, gotoOk \in BOOLEAN, element \in BOOLEAN :
       LET original == [ stem |-> safe_title(t), n |-> 0, ext |-> ".pdf" ]
           fp == FreePath(files, original, 0)
       IN /\ d_url' = u
          /\ d_calls' = d_calls + 1
          /\ d_pre' = { p \in Paths : Exists(files, p) }
          /\ d_resp' = NoResponse
          /\ IF ~gotoOk
             THEN DlReturn(fp, files, NoPath, "none", {})
             ELSE DlSet(IF element THEN "click" ELSE "find_pdf", fp, files, NoPath, "none", {})
  /\ UNCHANGED headless

\* a transfer saved by download.save_as: an empty or a non-empty file
SavedSizes == { "empty", "data" }

\* the click strategy without validation of the saved file, lines 1496-1526
ClickStrategy ==
  /\ d_pc = "click"
  /\ \/ \* expect_download, click or download.path() raises
        DlGoto("find_pdf", d_filepath)
     \/ \E ext \in SuggestedExts :
          LET fp == UseSuggested(d_filepath, ext)
          IN \/ \* save_as raises
                DlGoto("find_pdf", fp)
             \/ \E size \in SavedSizes :
                  DlReturn(fp, [ files EXCEPT ![fp] = size ], fp, "click",
                           d_written \cup { fp })
  /\ UNCHANGED << headless, d_url, d_pre, d_resp, d_calls >>

\* _find_pdf_url, lines 1529-1530 and 1723-1765
FindPdfUrl ==
  /\ d_pc = "find_pdf"
  /\ \E link \in BOOLEAN : DlGoto(IF link THEN "js" ELSE "page_api", d_filepath)
  /\ UNCHANGED << headless, d_url, d_pre, d_resp, d_calls >>

\* a transfer strategy that keeps a saved empty file
TransferKeepingEmpty(here, next, by) ==
  /\ d_pc = here
  /\ \/ DlGoto(next, d_filepath)
     \/ \E ext \in SuggestedExts :
          LET fp == UseSuggested(d_filepath, ext)
          IN \/ DlGoto(next, fp)
             \/ DlReturn(fp, [ files EXCEPT ![fp] = "data" ], fp, by,
                         d_written \cup { fp })
             \/ DlSet(next, fp, [ files EXCEPT ![fp] = "empty" ], d_ret, d_by,
                      d_written \cup { fp })
  /\ UNCHANGED << headless, d_url, d_pre, d_resp, d_calls >>

\* a transfer strategy with validation: synthetic click (1535-1568) and direct
\* navigation (1572-1596); an empty saved file is unlinked and the cascade goes on
ValidatedTransfer(here, next, by) ==
  /\ d_pc = here
  /\ \/ \* expect_download or the trigger raises
        DlGoto(next, d_filepath)
     \/ \E ext \in SuggestedExts :
          LET fp == UseSuggested(d_filepath, ext)
          IN \/ \* save_as raises
                DlGoto(next, fp)
             \/ \* saved, exists and st_size > 0
                DlReturn(fp, [ files EXCEPT ![fp] = "data" ], fp, by,
                         d_written \cup { fp })
             \/ \* saved empty: filepath.unlink()
                DlSet(next, fp, [ files EXCEPT ![fp] = "absent" ], d_ret, d_by,
                      d_written \cup { fp })
  /\ UNCHANGED << headless, d_url, d_pre, d_resp, d_calls >>

JsStrategy == ValidatedTransfer("js", "nav", "js")

NavStrategy == ValidatedTransfer("nav", "api", "nav")

\* lines 1607-1608 and 1639-1640
ForcePdf(p) == IF p.ext # ".pdf" THEN with_suffix(p, ".pdf") ELSE p

\* authenticated fetch of the inline pdf link, lines 1600-1618
ApiStrategy ==
  /\ d_pc = "api"
  /\ \/ \* the request raises
        DlGoto("page_api", d_filepath)
     \/ \E r \in Responses :
          IF r.ok /\ r.len > 1000 /\ (r.ctype = "application/pdf" \/ r.sig)
          THEN LET fp == ForcePdf(d_filepath)
               IN \/ \* open raises
                     DlGoto("page_api", fp)
                  \/ DlReturn(fp, [ files EXCEPT ![fp] = "data" ], fp, "api",
                              d_written \cup { fp })
          ELSE DlGoto("page_api", d_filepath)
  /\ UNCHANGED << headless, d_url, d_pre, d_resp, d_calls >>

\* lines 1634-1636
is_pdf(r, u) ==
  \/ r.ctype = "application/pdf"
  \/ EndsWithPdf(u)
  \/ (r.len > 4 /\ r.sig)

\* authenticated fetch of the page url itself, lines 1627-1654
PageApiStrategy ==
  /\ d_pc = "page_api"
  /\ \/ \* the request raises
        /\ DlGoto("snapshot", d_filepath)
        /\ UNCHANGED d_resp
     \/ \E r \in Responses :
          /\ d_resp' = r
          /\ IF ~r.ok THEN DlGoto("snapshot", d_filepath)
             ELSE IF is_pdf(r, d_url) /\ r.len > 1000
             THEN LET fp == ForcePdf(d_filepath)
                  IN \/ \* open raises
                        DlGoto("snapshot", fp)
                     \/ DlReturn(fp, [ files EXCEPT ![fp] = "data" ], fp, "page_api",
                                 d_written \cup { fp })
             ELSE DlReturn(d_filepath, files, NoPath, "none", d_written)
  /\ UNCHANGED << headless, d_url, d_pre, d_calls >>

\* page.pdf() in headless mode only, lines 1656-1669
SnapshotStrategy ==
  /\ d_pc = "snapshot"
  /\ IF headless
     THEN LET fp == ForcePdf(d_filepath)
          IN \/ \* page.pdf raises
                DlReturn(fp, files, NoPath, "none", d_written)
             \/ DlReturn(fp, [ files EXCEPT ![fp] = "data" ], fp, "snapshot",
                         d_written \cup { fp })
     ELSE DlReturn(d_filepath, files, NoPath, "none", d_written)
  /\ UNCHANGED << headless, d_url, d_pre, d_resp, d_calls >>

DlNext ==
  \/ DownloadDocument /\ UNCHANGED << checkVars, webVars, loginVars, laterVars >>
  \/ ClickStrategy /\ UNCHANGED << checkVars, webVars, loginVars, laterVars >>
  \/ FindPdfUrl /\ UNCHANGED << checkVars, webVars, loginVars, laterVars >>
  \/ JsStrategy /\ UNCHANGED << checkVars, webVars, loginVars, laterVars >>
  \/ NavStrategy /\ UNCHANGED << checkVars, webVars, loginVars, laterVars >>
  \/ ApiStrategy /\ UNCHANGED << checkVars, webVars, loginVars, laterVars >>
  \/ PageApiStrategy /\ UNCHANGED << checkVars, webVars, loginVars, laterVars >>
  \/ SnapshotStrategy /\ UNCHANGED << checkVars, webVars, loginVars, laterVars >>

C8_ReturnedFileNonEmpty ==
  (d_pc = "returned" /\ d_ret # NoPath) => files[d_ret] = "data"

\* C9: download_document never writes to a path that existed when the call
\* began, so the path it returns is a file distinct from every earlier one.
C9_NoOverwrite ==
  /\ d_written \cap d_pre = {}
  /\ (d_pc = "returned" /\ d_ret # NoPath) => d_ret \notin d_pre

\* C10: the fetch of the page url saves a file only if the declared content
\* type or the leading byte signature of the response identifies a PDF.
C10_PageFetchOnlyPdf ==
  (d_pc = "returned" /\ d_by = "page_api") =>
    (d_resp.ctype = "application/pdf" \/ d_resp.sig)

\* C35: the page is rendered to a PDF snapshot only in headless mode, and in
\* headless mode a call whose strategies have all failed returns None only
\* from the snapshot step, also when the fetch of the page url succeeded with
\* a response that is not a document.
C35_SnapshotIffHeadlessFailure ==
  [][/\ d_by' = "snapshot" => headless
     /\ ( /\ headless
          /\ d_pc \notin { "idle", "returned" }
          /\ d_pc' = "returned"
          /\ d_ret' = NoPath ) => d_pc = "snapshot"]_vars

(***************************************************************************)
(* The front-end (web_app.py): commands submit tasks to a                  *)
(* ThreadPoolExecutor; every task runs on one of its worker threads and    *)
(* drives the browser of the agent instance bound when it starts.          *)
(***************************************************************************)
\* ThreadPoolExecutor(max_workers=3)
max_workers == 3

Workers == 1..max_workers

IdleTask == [ kind |-> "idle", pc |-> "idle", n |-> 0, i |-> 0, got |-> 0,
              auto |-> FALSE, ag |-> 0 ]

NewTask(kind, n, auto) ==
  [ kind |-> kind, pc |-> "start", n |-> n, i |-> 0, got |-> 0, auto |-> auto,
    ag |-> 0 ]

NoMessage == [ kind |-> "none", phase |-> "none" ]

\* the status fields after import; agent_manager is set only by
\* init_agent_manager (web_app.py 819-833, called from __main__)
StatusInit ==
  /\ agent_manager \in BOOLEAN
  /\ message = NoMessage
  /\ shared_state = [ is_running |-> FALSE, message |-> NoMessage ]

StatusParked ==
  /\ agent_manager = FALSE
  /\ message = NoMessage
  /\ shared_state = [ is_running |-> FALSE, message |-> NoMessage ]

WebInit ==
  /\ StatusInit
  /\ agent = 0
  /\ agents_made = 0
  /\ ai_helper \in BOOLEAN
  /\ agent_status = [ logged_in |-> FALSE, is_running |-> FALSE, results |-> 0 ]
  /\ work_queue = << >>
  /\ workers = [ w \in Workers |-> IdleTask ]
  /\ commands = 0
  /\ last_login = "none"

WebParked ==
  /\ StatusParked
  /\ agent = 0
  /\ agents_made = 0
  /\ ai_helper = FALSE
  /\ agent_status = [ logged_in |-> FALSE, is_running |-> FALSE, results |-> 0 ]
  /\ work_queue = << >>
  /\ workers = [ w \in Workers |-> IdleTask ]
  /\ commands = 0
  /\ last_login = "none"

\* executor.submit(task)
Submit(task) ==
  /\ commands < MaxCommands
  /\ commands' = commands + 1
  /\ work_queue' = Append(work_queue, task)

\* the login check of api_search, api_download and api_ai_smart_search
LoginGate == agent # 0 /\ agent_status.logged_in

\* api_login, lines 116-208: no check at all
ApiLogin ==
  /\ Submit(NewTask("login", 0, FALSE))
  /\ UNCHANGED << last_login, agent, agents_made, ai_helper, agent_status, workers >>

\* api_search, lines 273-378
ApiSearch ==
  /\ LoginGate
  /\ \E auto \in BOOLEAN : Submit(NewTask("search", 0, auto))
  /\ UNCHANGED << last_login, agent, agents_made, ai_helper, agent_status, workers >>

\* api_ai_smart_search, lines 211-270
ApiAiSmartSearch ==
  /\ LoginGate
  /\ ai_helper
  /\ Submit(NewTask("ai_search", 0, FALSE))
  /\ UNCHANGED << last_login, agent, agents_made, ai_helper, agent_status, workers >>

\* api_download, lines 381-451: the documents of the request, or the last results
ApiDownload ==
  /\ LoginGate
  /\ \E req \in 0..MaxDocs :
       LET n == IF req = 0 THEN agent_status.results ELSE req
       IN /\ n > 0
          /\ Submit(NewTask("download", n, FALSE))
  /\ UNCHANGED << last_login, agent, agents_made, ai_helper, agent_status, workers >>

\* api_logout, lines 470-497, in the request thread
ApiLogout ==
  /\ commands < MaxCommands
  /\ commands' = commands + 1
  /\ \/ \* agent.close() raises
        /\ agent # 0
        /\ UNCHANGED << agent, agent_status, last_login >>
     \/ /\ agent' = 0
        /\ last_login' = "none"
        /\ agent_status' = [ agent_status EXCEPT !.logged_in = FALSE, !.results = 0 ]
  /\ UNCHANGED << agents_made, ai_helper, work_queue, workers >>

\* a free worker thread takes the oldest submitted task
TakeTask(w) ==
  /\ workers[w].kind = "idle"
  /\ work_queue # << >>
  /\ workers' = [ workers EXCEPT ![w] = Head(work_queue) ]
  /\ work_queue' = Tail(work_queue)
  /\ UNCHANGED << last_login, agent, agents_made, ai_helper, agent_status, commands >>

FirstStep(kind) ==
  CASE kind = "login"     -> "create"
    [] kind = "search"    -> "search"
    [] kind = "ai_search" -> "ai"
    [] kind = "download"  -> "batch"

\* the head of do_login_sync, do_search_sync, do_ai_search_sync and
\* do_download_sync: is_running = True (search also clears the results)
TaskStart(w) ==
  /\ workers[w].pc = "start"
  /\ agent_status' =
       [ agent_status EXCEPT
           !.is_running = TRUE,
           !.results = IF workers[w].kind = "search" THEN 0 ELSE @ ]
  /\ workers' = [ workers EXCEPT ![w].pc = FirstStep(workers[w].kind),
                                 ![w].ag = agent ]
  /\ UNCHANGED << last_login, agent, agents_made, ai_helper, work_queue, commands >>

\* do_login, lines 146-156: a new agent instance replaces the global one
LoginCreate(w) ==
  /\ workers[w].pc = "create"
  /\ agents_made' = agents_made + 1
  /\ agent' = agents_made + 1
  /\ last_login' = "none"
  /\ workers' = [ workers EXCEPT ![w].pc = "login", ![w].ag = agents_made + 1 ]
  /\ UNCHANGED << ai_helper, agent_status, work_queue, commands >>

\* initialize() and login() end, lines 156-192
LoginDone(w) ==
  /\ workers[w].pc = "login"
  /\ \E outcome \in { "success", "failure", "raised" } :
       /\ agent_status' =
            [ agent_status EXCEPT !.logged_in = IF outcome = "success" THEN TRUE ELSE @ ]
       /\ last_login' =
            IF workers[w].ag # agent THEN last_login
            ELSE IF outcome = "success" THEN "true" ELSE "false"
  /\ workers' = [ workers EXCEPT ![w].pc = "finally" ]
  /\ UNCHANGED << agent, agents_made, ai_helper, work_queue, commands >>

\* do_search, lines 304-352, up to the automatic download
SearchRun(w) ==
  /\ workers[w].pc = "search"
  /\ \/ \* the search raises (also: agent is None)
        workers' = [ workers EXCEPT ![w].pc = "finally" ]
     \/ /\ workers[w].ag # 0
        /\ \E found \in 0..MaxDocs :
             workers' =
               [ workers EXCEPT
                   ![w].n = found,
                   ![w].pc = IF workers[w].auto /\ found > 0 THEN "batch" ELSE "finish" ]
  /\ UNCHANGED << last_login, agent, agents_made, ai_helper, agent_status, work_queue, commands >>

\* do_ai_search, lines 235-257
AiSearchRun(w) ==
  /\ workers[w].pc = "ai"
  /\ workers' = [ workers EXCEPT ![w].pc = "finally" ]
  /\ UNCHANGED << last_login, agent, agents_made, ai_helper, agent_status, work_queue, commands >>

\* download_all_results (limra_search_agent.py 1773-1781): the loop takes the
\* next record and calls download_document; no flag is read
BeginItem(w) ==
  /\ workers[w].pc = "batch"
  /\ workers[w].ag # 0
  /\ workers[w].i < workers[w].n
  /\ workers' = [ workers EXCEPT ![w].i = @ + 1, ![w].pc = "item" ]
  /\ UNCHANGED << last_login, agent, agents_made, ai_helper, agent_status, work_queue, commands >>

\* download_document returns (1781-1790): a path is appended, None is skipped
EndItem(w) ==
  /\ workers[w].pc = "item"
  /\ \E path \in BOOLEAN :
       workers' = [ workers EXCEPT ![w].got = IF path THEN @ + 1 ELSE @,
                                   ![w].pc = "batch" ]
  /\ UNCHANGED << last_login, agent, agents_made, ai_helper, agent_status, work_queue, commands >>

\* the loop is exhausted (1792-1793), or agent is None and the task raises
EndBatch(w) ==
  /\ workers[w].pc = "batch"
  /\ \/ workers[w].ag = 0 /\ workers' = [ workers EXCEPT ![w].pc = "finally" ]
     \/ /\ workers[w].ag # 0
        /\ workers[w].i = workers[w].n
        /\ workers' = [ workers EXCEPT ![w].pc = "finish" ]
  /\ UNCHANGED << last_login, agent, agents_made, ai_helper, agent_status, work_queue, commands >>

\* the result is published: web_app.py 354-358 (search), 417-424 (download)
TaskFinish(w) ==
  /\ workers[w].pc = "finish"
  /\ agent_status' =
       [ agent_status EXCEPT
           !.results = IF workers[w].kind = "search" THEN workers[w].n ELSE @ ]
  /\ workers' = [ workers EXCEPT ![w].pc = "finally" ]
  /\ UNCHANGED << last_login, agent, agents_made, ai_helper, work_queue, commands >>

\* the finally clause of every task: is_running = False
TaskFinally(w) ==
  /\ workers[w].pc = "finally"
  /\ agent_status' = [ agent_status EXCEPT !.is_running = FALSE ]
  /\ workers' = [ workers EXCEPT ![w] = IdleTask ]
  /\ UNCHANGED << last_login, agent, agents_made, ai_helper, work_queue, commands >>

\* the tasks that also write to agent_manager: do_login_sync (137, 173, 177,
\* 197) and do_download_sync (406, 420, 440); the search tasks never do
UsesManager(kind) == kind \in { "login", "download" }

\* agent_status['message'] = msg and, for the tasks that use the manager,
\* agent_manager.update_state(message=msg)
SetMessage(kind, phase) ==
  /\ message' = [ kind |-> kind, phase |-> phase ]
  /\ shared_state' =
       IF agent_manager /\ UsesManager(kind)
       THEN [ shared_state EXCEPT !.message = [ kind |-> kind, phase |-> phase ] ]
       ELSE shared_state
  /\ UNCHANGED agent_manager

\* the status writes at the head of a task
StatusOnStart(w) ==
  /\ message' = [ kind |-> workers[w].kind, phase |-> "running" ]
  /\ shared_state' =
       IF agent_manager /\ UsesManager(workers[w].kind)
       THEN [ is_running |-> TRUE,
              message |-> [ kind |-> workers[w].kind, phase |-> "running" ] ]
       ELSE shared_state
  /\ UNCHANGED agent_manager

\* the final message of the task of worker w, written when it moves to its
\* finally clause
StatusOnEnd(w) ==
  IF workers'[w].pc = "finally"
  THEN SetMessage(IF workers[w].kind = "ai_search" THEN "ai_search"
                  ELSE IF workers[w].kind = "login" THEN "login"
                  ELSE IF workers[w].kind = "download" THEN "download"
                  ELSE "search", "final")
  ELSE UNCHANGED statusVars

\* the finally clause: agent_manager.update_state(is_running=False)
StatusOnFinally(w) ==
  /\ shared_state' =
       IF agent_manager /\ UsesManager(workers[w].kind)
       THEN [ shared_state EXCEPT !.is_running = FALSE ]
       ELSE shared_state
  /\ UNCHANGED << agent_manager, message >>

\* api_logout, lines 481-488
StatusOnLogout ==
  IF agent' = 0
  THEN /\ message' = [ kind |-> "logout", phase |-> "final" ]
       /\ shared_state' =
            IF agent_manager
            THEN [ shared_state EXCEPT !.message = [ kind |-> "logout", phase |-> "final" ] ]
            ELSE shared_state
       /\ UNCHANGED agent_manager
  ELSE UNCHANGED statusVars

\* api_status, lines 454-467: the manager's state when there is a manager
status ==
  IF agent_manager THEN shared_state
  ELSE [ is_running |-> agent_status.is_running, message |-> message ]

WebNext ==
  \/ ApiLogin /\ UNCHANGED statusVars
      /\ UNCHANGED << checkVars, dlVars, loginVars, laterVars >>
  \/ ApiSearch /\ UNCHANGED statusVars
      /\ UNCHANGED << checkVars, dlVars, loginVars, laterVars >>
  \/ ApiAiSmartSearch /\ UNCHANGED statusVars
      /\ UNCHANGED << checkVars, dlVars, loginVars, laterVars >>
  \/ ApiDownload /\ UNCHANGED statusVars
      /\ UNCHANGED << checkVars, dlVars, loginVars, laterVars >>
  \/ ApiLogout /\ StatusOnLogout
      /\ UNCHANGED << checkVars, dlVars, loginVars, laterVars >>
  \/ \E w \in Workers :
       TakeTask(w) /\ UNCHANGED statusVars
         /\ UNCHANGED << checkVars, dlVars, loginVars, laterVars >>
  \/ \E w \in Workers :
       TaskStart(w) /\ StatusOnStart(w)
         /\ UNCHANGED << checkVars, dlVars, loginVars, laterVars >>
  \/ \E w \in Workers :
       LoginCreate(w) /\ UNCHANGED statusVars
         /\ UNCHANGED << checkVars, dlVars, loginVars, laterVars >>
  \/ \E w \in Workers :
       LoginDone(w) /\ StatusOnEnd(w)
         /\ UNCHANGED << checkVars, dlVars, loginVars, laterVars >>
  \/ \E w \in Workers :
       SearchRun(w) /\ StatusOnEnd(w)
         /\ UNCHANGED << checkVars, dlVars, loginVars, laterVars >>
  \/ \E w \in Workers :
       AiSearchRun(w) /\ StatusOnEnd(w)
         /\ UNCHANGED << checkVars, dlVars, loginVars, laterVars >>
  \/ \E w \in Workers :
       BeginItem(w) /\ UNCHANGED statusVars
         /\ UNCHANGED << checkVars, dlVars, loginVars, laterVars >>
  \/ \E w \in Workers :
       EndItem(w) /\ UNCHANGED statusVars
         /\ UNCHANGED << checkVars, dlVars, loginVars, laterVars >>
  \/ \E w \in Workers :
       EndBatch(w) /\ StatusOnEnd(w)
         /\ UNCHANGED << checkVars, dlVars, loginVars, laterVars >>
  \/ \E w \in Workers :
       TaskFinish(w) /\ StatusOnEnd(w)
         /\ UNCHANGED << checkVars, dlVars, loginVars, laterVars >>
  \/ \E w \in Workers :
       TaskFinally(w) /\ StatusOnFinally(w)
         /\ UNCHANGED << checkVars, dlVars, loginVars, laterVars >>

(***************************************************************************)
(* Claims about the front-end.                                             *)
(***************************************************************************)
\* a task is driving the browser of its agent instance
InFlight(w) == workers[w].pc \in { "login", "search", "ai", "batch", "item" }

\* C1: at most one pipeline operation (login, search, AI search, download
\* batch) is in flight on one live session at any instant.
C1_OneOperationPerSession ==
  \A w1, w2 \in Workers :
    (w1 # w2 /\ InFlight(w1) /\ InFlight(w2)) => workers[w1].ag # workers[w2].ag

\* C2: once the still-running flag is cleared during a download batch, no
\* further item's download is started.
C2_NoItemAfterFlagCleared ==
  [][ \A w \in Workers :
        (workers[w].pc = "batch" /\ workers'[w].pc = "item")
          => agent_status.is_running ]_vars

\* the task of worker w has begun and has not run its finally clause
Started(w) == workers[w].pc \notin { "idle", "start" }

\* C18: while the background task of an accepted login, search or download
\* command runs, status() reports is_running = true, for every command kind
\* and every interleaving of accepted commands.
C18_RunningVisible ==
  (\E w \in Workers : Started(w)) => status.is_running

\* the tasks behind the login check
GATED_KINDS == { "search", "ai_search", "download" }

\* C38: a search, AI search or download is accepted, and its task started,
\* only while the current agent exists and its latest login() has returned
\* true with no logout since; and no such task is running when a logout
\* removes the agent.
C38_LoginGating ==
  [][/\ (Len(work_queue') > Len(work_queue)
          /\ work_queue'[Len(work_queue')].kind \in GATED_KINDS) =>
            (agent # 0 /\ last_login = "true")
     /\ \A w \in Workers :
          (workers[w].pc = "start" /\ workers'[w].pc # "start"
             /\ workers[w].kind \in GATED_KINDS) =>
            (agent # 0 /\ last_login = "true")
     /\ \A w \in Workers :
          (workers'[w].kind \in GATED_KINDS /\ InFlight(w) /\ agent # 0) => agent' # 0]_vars


(***************************************************************************)
(* LimraSearchAgent.login (limra_search_agent.py 273-842) as a step        *)
(* machine.  Every page operation may raise; inside the try block that     *)
(* leads to the handler at 804.  The log file is writable for the whole    *)
(* call or not at all.                                                     *)
(***************************************************************************)
\* the pages the browser may show during login()
LOGIN_PAGES ==
  { s \in Snapshots :
      /\ s.url \in { "https://www.limra.com/", "https://www.limra.com/login/",
                     "https://www.limra.com/en/my-account/", "https://www.loma.org/en/" }
      /\ s.content \in { {}, { "<a href=\"/logout\">Log Out</a>" },
                         { "<a href=\"/login\">" }, { "Welcome to LIMRA" },
                         { "My LIMRA" } }
      /\ s.cookies \in { {}, { "ASP.NET_SessionId" } } }

BlankPage == [ url |-> "about:blank", content |-> {}, cookies |-> {} ]

\* needle in content (case-sensitive)
ContentRawHas(content, needle) == needle = "ko:logout" /\ "ko:logout" \in content

\* 'limra.com' in current_url and 'login' not in current_url.lower()
OffLoginPage(s) == UrlRawHas(s.url, "limra.com") /\ ~UrlLowerHas(s.url, "login")

\* what a selector can yield: wait_for_selector times out, or finds an element
\* that is visible or hidden
SelectorOutcomes == { "timeout", "visible", "hidden" }
CascadeInputs == [ 1..MaxSelectors -> SelectorOutcomes ]

\* the cascade loops at 339-349, 479-503, 584-605, 678-688: the variable keeps
\* the last element found; the loop breaks at the first visible one
RECURSIVE Cascade(_, _, _)
Cascade(outcomes, i, element) ==
  IF i > Len(outcomes) THEN element
  ELSE IF outcomes[i] = "timeout" THEN Cascade(outcomes, i + 1, element)
  ELSE IF outcomes[i] = "visible" THEN "visible"
  ELSE Cascade(outcomes, i + 1, "hidden")

\* the elements a cascade can end with
CascadeResults == { Cascade(outcomes, 1, "none") : outcomes \in CascadeInputs }

LSet(pc, ret, logged, sess, pg, ops) ==
  /\ l_pc' = pc
  /\ l_ret' = ret
  /\ is_logged_in' = logged
  /\ session_file' = sess
  /\ l_page' = pg
  /\ l_ops' = ops

\* login() returns ret
LReturn(ret, logged, sess, pg, ops) == LSet("returned", ret, logged, sess, pg, ops)
\* login() goes on at pc
LGoto(pc, pg, ops) == LSet(pc, l_ret, is_logged_in, session_file, pg, ops)

\* storage_state() and the write of limra_session.json inside try/except that
\* only logs (308-315, 432-439): login() returns True either way
SaveLoggedAndReturn(pg, ops) ==
  \/ LReturn("true", TRUE, "fresh", pg, ops)
  \/ LReturn("true", TRUE, session_file, pg, ops)

\* the same with no handler of its own (621-627, 747-753, 776-782): a failed
\* write raises to the enclosing handler, reached at pc onFail
SaveAndReturn(onFail, pg, ops) ==
  \/ LReturn("true", TRUE, "fresh", pg, ops)
  \/ LSet(onFail, l_ret, TRUE, session_file, pg, ops)

\* a variant that returns False when the write fails
SaveOrFail(pg, ops) ==
  \/ LReturn("true", TRUE, "fresh", pg, ops)
  \/ LReturn("false", TRUE, session_file, pg, ops)

LoginInit ==
  /\ l_pc = "call"
  /\ l_ret = "none"
  /\ is_logged_in = FALSE
  /\ session_file \in { "absent", "stored", "nocookies", "corrupt" }
  /\ log_ok \in BOOLEAN
  /\ l_page = BlankPage
  /\ l_ops = {}
  /\ l_session = "unknown"
  /\ email_input = "none"
  /\ password_input = "none"

LoginParked ==
  /\ l_pc = "call"
  /\ l_ret = "none"
  /\ is_logged_in = FALSE
  /\ session_file = "absent"
  /\ log_ok = TRUE
  /\ l_page = BlankPage
  /\ l_ops = {}
  /\ l_session = "unknown"
  /\ email_input = "none"
  /\ password_input = "none"

\* load_session surfacing an unusable session as the result of login()
LoadSessionSurfacing ==
  /\ l_pc = "call"
  /\ \/ /\ session_file # "stored"
        /\ l_session' = "invalid"
        /\ LReturn("false", is_logged_in, session_file, l_page, l_ops)
     \/ /\ session_file = "stored"
        /\ \E pg \in LOGIN_PAGES, fail \in CheckFails :
             IF CheckIfLoggedIn(pg, fail)
             THEN /\ l_session' = "valid"
                  /\ LReturn("true", TRUE, session_file, pg, l_ops \cup { "goto_base" })
             ELSE /\ l_session' = "invalid"
                  /\ LReturn("false", is_logged_in, session_file, pg,
                             l_ops \cup { "goto_base" })
  /\ UNCHANGED << log_ok, email_input, password_input >>

\* login() lines 275-277 with load_session, lines 127-161
LoadSession ==
  /\ l_pc = "call"
  /\ \/ \* no file; json.load raises; no 'cookies' key (returns None)
        /\ session_file # "stored"
        /\ l_session' = "invalid"
        /\ LGoto("log_start", l_page, l_ops)
     \/ \* add_cookies raises
        /\ session_file = "stored"
        /\ l_session' = "invalid"
        /\ LGoto("log_start", l_page, l_ops)
     \/ \* page.goto(BASE_URL) raises
        /\ session_file = "stored"
        /\ l_session' = "invalid"
        /\ LGoto("log_start", l_page, l_ops \cup { "goto_base" })
     \/ /\ session_file = "stored"
        /\ \E pg \in LOGIN_PAGES, fail \in CheckFails :
             IF CheckIfLoggedIn(pg, fail)
             THEN /\ l_session' = "valid"
                  /\ LReturn("true", TRUE, session_file, pg, l_ops \cup { "goto_base" })
             ELSE /\ l_session' = "invalid"
                  /\ LGoto("log_start", pg, l_ops \cup { "goto_base" })
  /\ UNCHANGED << log_ok, email_input, password_input >>

\* lines 279-290: the first log() calls, outside the try block
LogStart ==
  /\ l_pc = "log_start"
  /\ IF log_ok
     THEN LGoto("goto_login", l_page, l_ops)
     ELSE LReturn("raised", is_logged_in, session_file, l_page, l_ops)
  /\ UNCHANGED << log_ok, l_session, email_input, password_input >>

\* lines 293-316: the login page, and the redirect of a logged-in browser
GotoLogin ==
  /\ l_pc = "goto_login"
  /\ \/ \* page.goto(LOGIN_URL) raises
        LGoto("handler", l_page, l_ops \cup { "goto_login" })
     \/ \E pg \in LOGIN_PAGES :
          IF OffLoginPage(pg) /\ ~UrlLowerHas(pg.url, "account")
          THEN SaveLoggedAndReturn(pg, l_ops \cup { "goto_login" })
          ELSE LGoto("email", pg, l_ops \cup { "goto_login" })
  /\ UNCHANGED << log_ok, l_session, email_input, password_input >>

\* lines 318-370: the email cascade, the diagnostic snapshot, the fill
EmailEntry ==
  /\ l_pc = "email"
  /\ \E element \in CascadeResults :
          /\ email_input' = element
          /\ IF element = "none"
             THEN \/ \* page.content() or the write of the markup raises
                     LGoto("handler", l_page, l_ops)
                  \/ \* page.screenshot raises
                     LGoto("handler", l_page, l_ops \cup { "debug_login_page.html" })
                  \/ LReturn("false", is_logged_in, session_file, l_page,
                             l_ops \cup { "debug_login_page.html",
                                          "debug_login_screenshot.png" })
             ELSE \/ \* fill raises
                     LGoto("handler", l_page, l_ops)
                  \/ LGoto("captcha", l_page, l_ops \cup { "fill_email" })
  /\ UNCHANGED << log_ok, l_session, password_input >>

\* lines 372-419: the CAPTCHA wait; every failure inside is swallowed
CaptchaWait ==
  /\ l_pc = "captcha"
  /\ \/ \* no reCAPTCHA frame, or the ceiling is reached on the same page
        LGoto("post_captcha", l_page, l_ops)
     \/ \* the challenge is solved and the site moves on
        \E pg \in LOGIN_PAGES : LGoto("post_captcha", pg, l_ops)
  /\ UNCHANGED << log_ok, l_session, email_input, password_input >>

\* lines 421-443: the page has left the login form after the CAPTCHA
PostCaptcha ==
  /\ l_pc = "post_captcha"
  /\ \/ \* page.url raises: logged, login goes on
        LGoto("button1", l_page, l_ops)
     \/ IF OffLoginPage(l_page)
        THEN SaveLoggedAndReturn(l_page, l_ops)
        ELSE LGoto("button1", l_page, l_ops)
  /\ UNCHANGED << log_ok, l_session, email_input, password_input >>

\* lines 445-549: the first button; failures of the click are swallowed
FirstButton ==
  /\ l_pc = "button1"
  /\ \/ \* page.url raises and the context has no page left (457-462)
        LReturn("false", is_logged_in, session_file, l_page, l_ops)
     \/ \E first_button \in CascadeResults, pg \in LOGIN_PAGES \cup { l_page } :
          IF first_button = "none"
          THEN IF OffLoginPage(l_page)
               THEN LGoto("password", l_page, l_ops)
               ELSE LGoto("password", pg, l_ops \cup { "press_enter_email" })
          ELSE LGoto("password", pg, l_ops \cup { "click_first_button" })
  /\ UNCHANGED << log_ok, l_session, email_input, password_input >>

\* 'logout' in page_content.lower() or 'sign out' in page_content.lower()
SignedInMarkup(s) ==
  ContentLowerHas(s.content, "logout") \/ ContentLowerHas(s.content, "sign out")

\* lines 551-661: the password cascade; with no field, a second look at the
\* page inside a try block whose handler only logs
PasswordEntry ==
  /\ l_pc = "password"
  /\ \/ \* page.url raises and the context has no page left (565-570)
        /\ LReturn("false", is_logged_in, session_file, l_page, l_ops)
        /\ UNCHANGED password_input
     \/ \E element \in CascadeResults :
             /\ password_input' = element
             /\ IF element = "none"
                THEN \E shot \in { {}, { "debug_password_step.png" } } :
                       \/ \* page.content() raises
                          LReturn("false", is_logged_in, session_file, l_page,
                                  l_ops \cup shot)
                       \/ IF SignedInMarkup(l_page) \/ OffLoginPage(l_page)
                          THEN SaveOrFail(l_page, l_ops \cup shot)
                          ELSE LReturn("false", is_logged_in, session_file, l_page,
                                       l_ops \cup shot)
                ELSE \/ \* fill raises
                        LGoto("handler", l_page, l_ops)
                     \/ LGoto("submit", l_page, l_ops \cup { "fill_password" })
  /\ UNCHANGED << log_ok, l_session, email_input >>

\* lines 663-718: the login button or Enter; failures are swallowed
SubmitPassword ==
  /\ l_pc = "submit"
  /\ \E login_button \in CascadeResults, pg \in LOGIN_PAGES \cup { l_page } :
          IF login_button = "none"
          THEN LGoto("verify", pg, l_ops \cup { "press_enter_password" })
          ELSE LGoto("verify", pg, l_ops \cup { "click_login_button" })
  /\ UNCHANGED << log_ok, l_session, email_input, password_input >>

\* success_indicators, lines 729-738
success_indicators(s) ==
  \/ ContentLowerHas(s.content, "logout")
  \/ ContentLowerHas(s.content, "sign out")
  \/ ContentLowerHas(s.content, "my account")
  \/ ContentLowerHas(s.content, "my limra")
  \/ ContentLowerHas(s.content, "welcome")
  \/ ContentRawHas(s.content, "ko:logout")
  \/ ContentRawHas(s.content, "ko:member")
  \/ (UrlRawHas(s.url, "www.limra.com") /\ ~UrlLowerHas(s.url, "login"))

\* lines 720-753: the verification of the landing page
Verify ==
  /\ l_pc = "verify"
  /\ \/ \* page.content() raises
        LGoto("handler", l_page, l_ops)
     \/ IF success_indicators(l_page)
        THEN SaveAndReturn("handler", l_page, l_ops)
        ELSE LGoto("retry", l_page, l_ops)
  /\ UNCHANGED << log_ok, l_session, email_input, password_input >>

\* the indicators of the home page re-check, lines 765-771
home_indicators(s) ==
  \/ ContentLowerHas(s.content, "logout")
  \/ ContentLowerHas(s.content, "sign out")
  \/ ContentLowerHas(s.content, "my limra")
  \/ ContentRawHas(s.content, "ko:logout")
  \/ OffLoginPage(s)

\* lines 754-802: the re-check on the home page
Retry ==
  /\ l_pc = "retry"
  /\ \/ \* page.goto(BASE_URL) raises
        LGoto("handler", l_page, l_ops \cup { "goto_base" })
     \/ \E pg \in LOGIN_PAGES :
          \/ \* page.content() raises
             LGoto("handler", pg, l_ops \cup { "goto_base" })
          \/ IF \/ home_indicators(pg)
                \/ (UrlRawHas(pg.url, "www.limra.com") /\ ~UrlLowerHas(pg.url, "login"))
             THEN SaveAndReturn("handler", pg, l_ops \cup { "goto_base" })
             ELSE \/ \* page.screenshot raises
                     LGoto("handler", pg, l_ops \cup { "goto_base" })
                  \/ LReturn("false", is_logged_in, session_file, pg,
                             l_ops \cup { "goto_base", "login_failed_screenshot.png" })
  /\ UNCHANGED << log_ok, l_session, email_input, password_input >>

\* lines 804-842: the handler of the try block
Handler ==
  /\ l_pc = "handler"
  /\ \E shot \in { {}, { "login_error_screenshot.png" } } :
       \/ \* page.goto(BASE_URL) raises
          LReturn("false", is_logged_in, session_file, l_page,
                  l_ops \cup { "goto_base" } \cup shot)
       \/ \E pg \in LOGIN_PAGES :
            \/ \* page.content() raises
               LReturn("false", is_logged_in, session_file, pg,
                       l_ops \cup { "goto_base" } \cup shot)
            \/ IF SignedInMarkup(pg) \/ ContentLowerHas(pg.content, "my limra")
               THEN \/ LReturn("true", TRUE, "fresh", pg, l_ops \cup { "goto_base" })
                    \/ \* the session write raises
                       LReturn("false", TRUE, session_file, pg,
                               l_ops \cup { "goto_base" } \cup shot)
               ELSE LReturn("false", is_logged_in, session_file, pg,
                            l_ops \cup { "goto_base" } \cup shot)
  /\ UNCHANGED << log_ok, l_session, email_input, password_input >>

LoginNext ==
  \/ LoadSession /\ UNCHANGED << checkVars, dlVars, webVars, laterVars >>
  \/ LogStart /\ UNCHANGED << checkVars, dlVars, webVars, laterVars >>
  \/ GotoLogin /\ UNCHANGED << checkVars, dlVars, webVars, laterVars >>
  \/ EmailEntry /\ UNCHANGED << checkVars, dlVars, webVars, laterVars >>
  \/ CaptchaWait /\ UNCHANGED << checkVars, dlVars, webVars, laterVars >>
  \/ PostCaptcha /\ UNCHANGED << checkVars, dlVars, webVars, laterVars >>
  \/ FirstButton /\ UNCHANGED << checkVars, dlVars, webVars, laterVars >>
  \/ PasswordEntry /\ UNCHANGED << checkVars, dlVars, webVars, laterVars >>
  \/ SubmitPassword /\ UNCHANGED << checkVars, dlVars, webVars, laterVars >>
  \/ Verify /\ UNCHANGED << checkVars, dlVars, webVars, laterVars >>
  \/ Retry /\ UNCHANGED << checkVars, dlVars, webVars, laterVars >>
  \/ Handler /\ UNCHANGED << checkVars, dlVars, webVars, laterVars >>

\* C3: login() never lets an exception reach its caller: every call ends by
\* returning a boolean.
C3_LoginNeverRaises == l_ret # "raised"

\* C5: when the stored session loads and validates, login() returns true
\* without issuing the navigation to the login form; when the session is
\* missing, unreadable or fails validation, no result of login() comes from
\* the session check: a boolean is returned only after the credential flow
\* has navigated to the login form.
C5_SessionShortCircuit ==
  /\ l_session = "valid" =>
       (l_pc = "returned" /\ l_ret = "true" /\ "goto_login" \notin l_ops)
  /\ l_session = "invalid" =>
       (l_pc # "call" /\ (l_ret \in { "true", "false" } => "goto_login" \in l_ops))

\* C5 witness: a call has returned true from a stored session that validated
\* on the home page.
C5_Witness ==
  /\ l_session = "valid"
  /\ session_file = "stored"
  /\ l_ret = "true"
  /\ "goto_base" \in l_ops

\* C6: whenever a step of login() has decided that authentication succeeded
\* (it has set is_logged_in), login() returns true, whether or not the
\* session could be persisted.
C6_SuccessReturnsTrue ==
  (l_ret # "none" /\ is_logged_in) => l_ret = "true"

\* C30: the verdict of the verification step of login() on the page reached
\* after submission is the verdict of _check_if_logged_in on that page: a
\* page the step rejects is rejected by the check, and a page the step
\* accepts is accepted by the check.
C30_VerifySameAsValidation ==
  /\ l_pc = "retry" => ~CheckIfLoggedIn(l_page, "none")
  /\ ( /\ l_pc = "returned"
       /\ l_ret = "true"
       /\ l_ops \cap { "click_login_button", "press_enter_password" } # {}
       /\ "goto_base" \notin l_ops ) => CheckIfLoggedIn(l_page, "none")

\* the actions login() performs on a control of the form
CONTROL_OPS ==
  { "fill_email", "fill_password", "press_enter_email", "press_enter_password",
    "click_first_button", "click_login_button" }

\* C31: when the first verification after submission has failed, the re-check
\* on the home page is the only further verification and it ends the call:
\* login() returns false, with the failure screenshot taken, when the re-check
\* fails, and returns true, with the session persisted, when it succeeds.
C31_SingleRetryDecides ==
  [][l_pc = "retry" =>
       /\ l_pc' = "returned"
       /\ l_ret' \in { "true", "false" }
       /\ l_ret' = "false" => "login_failed_screenshot.png" \in l_ops'
       /\ l_ret' = "true" => session_file' = "fresh"]_vars

\* C33: when the email cascade ends without a visible input, login() takes
\* the diagnostic snapshot (markup and screenshot) and returns false, having
\* filled no field, pressed no key and clicked no control.
C33_FieldNotFound ==
  [][(l_pc = "email" /\ email_input' # "visible") =>
       /\ l_pc' = "returned"
       /\ l_ret' = "false"
       /\ { "debug_login_page.html", "debug_login_screenshot.png" } \subseteq l_ops'
       /\ l_ops' \cap CONTROL_OPS = {}]_vars

\* C34: a field that login() has filled is one its cascade found visible: an
\* element that was found but is not visible is never the one used.
C34_OnlyVisibleUsed ==
  /\ "fill_email" \in l_ops => email_input = "visible"
  /\ "fill_password" \in l_ops => password_input = "visible"

\* C37: once login() has returned, is_logged_in is its result: false after it
\* returned false, true after it returned true.
C37_FlagAgreesWithResult ==
  /\ l_ret = "false" => ~is_logged_in
  /\ l_ret = "true" => is_logged_in

(***************************************************************************)
(* LimraSearchAgent._filter_documents (limra_search_agent.py 1267-1313).   *)
(* A document is its title and its year; 0 stands for None, which Python   *)
(* tests the same way (`if doc_year`, `if start_year`).                    *)
(***************************************************************************)
FILTER_TITLES == { "Retention Study", "Annuity Sales" }

\* the needles that the lower-cased search text of a title contains
TitleLowerNeedles(t) ==
  IF t = "Retention Study" THEN { "retention", "study" }
  ELSE IF t = "Annuity Sales" THEN { "annuity", "sales" }
  ELSE {}

FILTER_KEYWORDS == { "Retention", "ANNUITY", "ltc" }

\* kw.lower()
KwLower(kw) ==
  IF kw = "Retention" THEN "retention"
  ELSE IF kw = "ANNUITY" THEN "annuity"
  ELSE kw

NoYear == 0
\* the years _extract_year_from_page can yield, and None
FILTER_YEARS == { NoYear, 2022, 2024 }
\* start_year / end_year
YEAR_BOUNDS == { NoYear, 2023 }

FilterDocs == [ title : FILTER_TITLES, year : FILTER_YEARS ]

RECURSIVE SeqsUpTo(_, _)
SeqsUpTo(S, n) ==
  IF n = 0 THEN { << >> }
  ELSE LET shorter == SeqsUpTo(S, n - 1)
       IN shorter \cup { Append(q, x) : q \in { r \in shorter : Len(r) = n - 1 }, x \in S }

KeywordLists ==
  { << >>, << "Retention" >>, << "ltc" >>, << "ltc", "ANNUITY" >> }

\* any(kw.lower() in search_text for kw in keywords)
keyword_match(doc, keywords) ==
  \E i \in 1..Len(keywords) : KwLower(keywords[i]) \in TitleLowerNeedles(doc.title)

\* the year test of lines 1290-1296 and 1305-1310
YearPasses(doc, start_year, end_year) ==
  \/ doc.year = NoYear
  \/ /\ ~(start_year # NoYear /\ doc.year < start_year)
     /\ ~(end_year # NoYear /\ doc.year > end_year)

RECURSIVE Select(_, _, _, _, _)
\* the loop of lines 1277-1299 (useKeywords) and of lines 1304-1311
Select(documents, keywords, start_year, end_year, useKeywords) ==
  IF documents = << >> THEN << >>
  ELSE LET doc == Head(documents)
           rest == Select(Tail(documents), keywords, start_year, end_year, useKeywords)
       IN IF /\ (useKeywords /\ Len(keywords) > 0) => keyword_match(doc, keywords)
             /\ YearPasses(doc, start_year, end_year)
          THEN << doc >> \o rest
          ELSE rest

RECURSIVE Reverse(_)
Reverse(q) == IF q = << >> THEN << >> ELSE Append(Reverse(Tail(q)), Head(q))

\* a filter whose fallback returns the year-filtered input back to front
FilterReversingFallback(documents, keywords, start_year, end_year) ==
  LET filtered == Select(documents, keywords, start_year, end_year, TRUE)
  IN IF Len(keywords) > 0 /\ filtered = << >> /\ documents # << >>
     THEN Reverse(Select(documents, keywords, start_year, end_year, FALSE))
     ELSE filtered

\* a filter that drops the records without a year
FilterDroppingUndated(documents, keywords, start_year, end_year) ==
  LET filtered == Select(documents, keywords, start_year, end_year, TRUE)
  IN SelectSeq(filtered, LAMBDA d : d.year # NoYear)

\* _filter_documents
filter_documents(documents, keywords, start_year, end_year) ==
  LET filtered == Select(documents, keywords, start_year, end_year, TRUE)
  IN IF Len(keywords) > 0 /\ filtered = << >> /\ documents # << >>
     THEN Select(documents, keywords, start_year, end_year, FALSE)
     ELSE filtered

FilterInit ==
  /\ f_pc = "input"
  /\ f_docs \in SeqsUpTo(FilterDocs, MaxFilterDocs)
  /\ f_keywords \in KeywordLists
  /\ f_start \in YEAR_BOUNDS
  /\ f_end \in YEAR_BOUNDS
  /\ f_out = << >>
  /\ f_out2 = << >>

FilterParked ==
  /\ f_pc = "input"
  /\ f_docs = << >>
  /\ f_keywords = << >>
  /\ f_start = NoYear
  /\ f_end = NoYear
  /\ f_out = << >>
  /\ f_out2 = << >>

\* filtered_docs = self._filter_documents(all_documents, keywords, start_year, end_year)
FilterOnce ==
  /\ f_pc = "input"
  /\ f_pc' = "once"
  /\ f_out' = filter_documents(f_docs, f_keywords, f_start, f_end)
  /\ UNCHANGED << f_docs, f_keywords, f_start, f_end, f_out2 >>

\* the same call on the list it returned
FilterAgain ==
  /\ f_pc = "once"
  /\ f_pc' = "twice"
  /\ f_out2' = filter_documents(f_out, f_keywords, f_start, f_end)
  /\ UNCHANGED << f_docs, f_keywords, f_start, f_end, f_out >>

FilterNext ==
  \/ FilterOnce /\ UNCHANGED << baseVars, agentVars, browseVars, batchVars, errVars >>
  \/ FilterAgain /\ UNCHANGED << baseVars, agentVars, browseVars, batchVars, errVars >>

Elems(q) == { q[i] : i \in 1..Len(q) }

\* no record of the input matches any keyword
NoInputMatches ==
  /\ Len(f_keywords) > 0
  /\ f_docs # << >>
  /\ \A d \in Elems(f_docs) : ~keyword_match(d, f_keywords)

\* C11: the keyword constraint is dropped (the year-filtered input is
\* returned) exactly when keywords were given, the input is non-empty and no
\* input record matches a keyword; in every other case with keywords each
\* returned record matches a keyword; every returned record passes the year
\* test.
C11_FallbackOnlyWithoutMatch ==
  f_pc # "input" =>
    /\ NoInputMatches => f_out = Select(f_docs, f_keywords, f_start, f_end, FALSE)
    /\ (~NoInputMatches /\ Len(f_keywords) > 0) =>
          \A d \in Elems(f_out) : keyword_match(d, f_keywords)
    /\ \A d \in Elems(f_out) : YearPasses(d, f_start, f_end)

\* C12: filtering the output again with the same arguments returns it
\* unchanged.
C12_Idempotent == f_pc = "twice" => f_out2 = f_out

\* C12 witness: the fallback fired on the first pass, returned some records,
\* and the second pass has run.
C12_Witness ==
  /\ f_pc = "twice"
  /\ Len(f_keywords) > 0
  /\ Select(f_docs, f_keywords, f_start, f_end, TRUE) = << >>
  /\ Len(f_out) >= 2
  /\ Len(f_out) < Len(f_docs)

NPages == 2

\* urljoin(BASE_URL, href) of the hyperlinks
LINK_URLS ==
  { "https://www.limra.com/globalassets/retention-report.pdf",
    "https://www.limra.com/search/files/Annual.PDF",
    "https://www.limra.com/en/research/insurance/2024-retention-study/",
    "https://www.limra.com/en/research/retirement/annuity-outlook/",
    "https://www.limra.com/en/research/",
    "https://www.limra.com/login/?ReturnUrl=/en/research/insurance/x/" }

\* '.pdf' in url_lower
IsPdfLink(u) ==
  u \in { "https://www.limra.com/globalassets/retention-report.pdf",
          "https://www.limra.com/search/files/Annual.PDF" }

\* any(p in full_url for p in skip_patterns)
MatchesSkipPattern(u) ==
  u \in { "https://www.limra.com/search/files/Annual.PDF",
          "https://www.limra.com/login/?ReturnUrl=/en/research/insurance/x/" }

\* len([s for s in urlparse(full_url).path.split('/') if s])
PathSegments(u) ==
  IF u = "https://www.limra.com/en/research/insurance/2024-retention-study/" THEN 4
  ELSE IF u = "https://www.limra.com/en/research/retirement/annuity-outlook/" THEN 4
  ELSE IF u = "https://www.limra.com/search/files/Annual.PDF" THEN 3
  ELSE IF u = "https://www.limra.com/en/research/" THEN 2
  ELSE IF u = "https://www.limra.com/globalassets/retention-report.pdf" THEN 2
  ELSE 1

\* the lower-cased keywords contained in url_lower
LinkUrlNeedles(u) ==
  IF u = "https://www.limra.com/globalassets/retention-report.pdf" THEN { "retention" }
  ELSE IF u = "https://www.limra.com/en/research/insurance/2024-retention-study/"
    THEN { "retention" }
  ELSE IF u = "https://www.limra.com/en/research/retirement/annuity-outlook/"
    THEN { "annuity" }
  ELSE {}

\* (await link.inner_text()).strip()
LINK_TEXTS ==
  { "", "Download", "2024 Retention Study Report", "Annuity Outlook for Retirement",
    "PDF Document" }

\* len(text)
TextLen(t) ==
  IF t = "" THEN 0
  ELSE IF t = "Download" THEN 8
  ELSE IF t = "PDF Document" THEN 12
  ELSE IF t = "2024 Retention Study Report" THEN 27
  ELSE 30

\* the lower-cased keywords contained in title_lower
LinkTextNeedles(t) ==
  IF t = "2024 Retention Study Report" THEN { "retention" }
  ELSE IF t = "Annuity Outlook for Retirement" THEN { "annuity" }
  ELSE {}

\* the hyperlinks a section page may hold
LINKS ==
  { [ url |-> "https://www.limra.com/globalassets/retention-report.pdf",
      text |-> "2024 Retention Study Report" ],
    [ url |-> "https://www.limra.com/globalassets/retention-report.pdf", text |-> "" ],
    [ url |-> "https://www.limra.com/search/files/Annual.PDF",
      text |-> "Annuity Outlook for Retirement" ],
    [ url |-> "https://www.limra.com/en/research/insurance/2024-retention-study/",
      text |-> "2024 Retention Study Report" ],
    [ url |-> "https://www.limra.com/en/research/insurance/2024-retention-study/",
      text |-> "Download" ],
    [ url |-> "https://www.limra.com/en/research/retirement/annuity-outlook/",
      text |-> "Annuity Outlook for Retirement" ],
    [ url |-> "https://www.limra.com/en/research/",
      text |-> "Annuity Outlook for Retirement" ],
    [ url |-> "https://www.limra.com/login/?ReturnUrl=/en/research/insurance/x/",
      text |-> "2024 Retention Study Report" ] }

BrowseKeywordLists == { << >>, << "Retention" >>, << "ltc" >> }

\* the record appended for a link: title, url, type
LinkRecord(link, type) ==
  [ title |-> IF link.text = "" THEN "PDF Document" ELSE link.text,
    url |-> link.url,
    type |-> type ]

\* the body of the link loop, lines 1352-1397: the records one link adds
ClassifyLink(link) ==
  IF link.url = "" \/ link.text = "" THEN << >>
  ELSE IF IsPdfLink(link.url) THEN << LinkRecord(link, "PDF") >>
  ELSE IF MatchesSkipPattern(link.url) THEN << >>
  ELSE IF PathSegments(link.url) >= 3 /\ TextLen(link.text) >= 15
    THEN << LinkRecord(link, "Article") >>
  ELSE << >>

RECURSIVE CollectLinks(_)
\* for link in links
CollectLinks(links) ==
  IF links = << >> THEN << >>
  ELSE ClassifyLink(Head(links)) \o CollectLinks(Tail(links))

\* the links of section page i
PageLinks(i) ==
  IF i = 1 THEN SubSeq(b_links, 1, b_cut) ELSE SubSeq(b_links, b_cut + 1, Len(b_links))

RECURSIVE DedupUrlTitle(_, _)
\* lines 1412-1419: one `seen` set holds the urls and the titles
DedupUrlTitle(docs, seen) ==
  IF docs = << >> THEN << >>
  ELSE LET doc == Head(docs)
       IN IF doc.url \notin seen /\ doc.title \notin seen
          THEN << doc >> \o DedupUrlTitle(Tail(docs), seen \cup { doc.url, doc.title })
          ELSE DedupUrlTitle(Tail(docs), seen)

RECURSIVE DedupUrl(_, _)
\* lines 885-891 of search_documents
DedupUrl(results, seen_urls) ==
  IF results = << >> THEN << >>
  ELSE LET result == Head(results)
       IN IF result.url \notin seen_urls
          THEN << result >> \o DedupUrl(Tail(results), seen_urls \cup { result.url })
          ELSE DedupUrl(Tail(results), seen_urls)

\* keyword_lower in title_lower or in desc_lower or in url_lower
BrowseMatch(doc, keywords) ==
  \E i \in 1..Len(keywords) :
    KwLower(keywords[i]) \in (LinkTextNeedles(doc.title) \cup LinkUrlNeedles(doc.url))

\* a keyword filter without the fallback
KeywordFilterStrict(docs, keywords) ==
  IF Len(keywords) = 0 THEN docs
  ELSE SelectSeq(docs, LAMBDA d : BrowseMatch(d, keywords))

\* lines 1428-1453
KeywordFilter(docs, keywords) ==
  IF Len(keywords) = 0 THEN docs
  ELSE LET filtered_docs == SelectSeq(docs, LAMBDA d : BrowseMatch(d, keywords))
       IN IF filtered_docs = << >> THEN docs ELSE filtered_docs

BrowseInit ==
  /\ b_pc = "search"
  /\ b_links \in SeqsUpTo(LINKS, MaxLinks)
  /\ b_cut \in 0..Len(b_links)
  /\ b_keywords \in BrowseKeywordLists
  /\ b_i = 1
  /\ b_loaded = {}
  /\ all_documents = << >>
  /\ unique_docs = << >>
  /\ b_out = << >>
  /\ s_max \in { 1, 50 }
  /\ s_out = << >>

BrowseParked ==
  /\ b_pc = "search"
  /\ b_links = << >>
  /\ b_cut = 0
  /\ b_keywords = << >>
  /\ b_i = 1
  /\ b_loaded = {}
  /\ all_documents = << >>
  /\ unique_docs = << >>
  /\ b_out = << >>
  /\ s_max = 50
  /\ s_out = << >>

\* lines 1337-1405: one section page; a page that fails to load is skipped
BrowsePage ==
  /\ b_pc = "page"
  /\ \/ /\ all_documents' = all_documents \o CollectLinks(PageLinks(b_i))
        /\ b_loaded' = b_loaded \cup { b_i }
     \/ \* page.goto or query_selector_all raises
        UNCHANGED << all_documents, b_loaded >>
  /\ IF b_i < NPages
     THEN b_i' = b_i + 1 /\ b_pc' = "page"
     ELSE b_i' = b_i /\ b_pc' = "dedup"
  /\ UNCHANGED << b_links, b_cut, b_keywords, unique_docs, b_out, s_max, s_out >>

\* lines 1409-1421
BrowseDedup ==
  /\ b_pc = "dedup"
  /\ unique_docs' = DedupUrlTitle(all_documents, {})
  /\ b_pc' = "filter"
  /\ UNCHANGED << b_links, b_cut, b_keywords, b_i, b_loaded, all_documents, b_out,
                  s_max, s_out >>

\* lines 1428-1456
BrowseFilter ==
  /\ b_pc = "filter"
  /\ b_out' = KeywordFilter(unique_docs, b_keywords)
  /\ b_pc' = "done"
  /\ UNCHANGED << b_links, b_cut, b_keywords, b_i, b_loaded, all_documents,
                  unique_docs, s_max, s_out >>

\* the record _parse_search_results makes of a link, lines 930-941
SearchRecord(link) ==
  [ title |-> IF link.text = "" THEN "Untitled Document" ELSE link.text,
    url |-> link.url,
    type |-> "Article" ]

RECURSIVE AllRecords(_)
\* the candidates search_documents has collected: one record per link
AllRecords(links) ==
  IF links = << >> THEN << >>
  ELSE << SearchRecord(Head(links)) >> \o AllRecords(Tail(links))

\* unique_results[:max_results]
Cut(q, n) == IF Len(q) <= n THEN q ELSE SubSeq(q, 1, n)

\* search_documents, lines 885-896, called before the section crawl
\* (web_app.py 313-322)
SearchDocuments ==
  /\ b_pc = "search"
  /\ b_pc' = "page"
  /\ s_out' = Cut(DedupUrl(AllRecords(b_links), {}), s_max)
  /\ UNCHANGED << b_links, b_cut, b_keywords, b_i, b_loaded, all_documents,
                  unique_docs, b_out, s_max >>

BrowseNext ==
  \/ BrowsePage /\ UNCHANGED << baseVars, agentVars, filterVars, batchVars, errVars >>
  \/ BrowseDedup /\ UNCHANGED << baseVars, agentVars, filterVars, batchVars, errVars >>
  \/ BrowseFilter /\ UNCHANGED << baseVars, agentVars, filterVars, batchVars, errVars >>
  \/ SearchDocuments /\ UNCHANGED << baseVars, agentVars, filterVars, batchVars, errVars >>

\* no two records of q have the same url
UniqueUrls(q) == \A i, j \in 1..Len(q) : q[i].url = q[j].url => i = j

Urls(q) == { q[i].url : i \in 1..Len(q) }

C15_NeverEmptyFilter ==
  b_pc = "done" =>
    /\ unique_docs # << >> => b_out # << >>
    /\ b_keywords # << >> =>
         IF \E i \in 1..Len(unique_docs) : BrowseMatch(unique_docs[i], b_keywords)
         THEN b_out = SelectSeq(unique_docs, LAMBDA d : BrowseMatch(d, b_keywords))
         ELSE b_out = unique_docs

\* C15 witness: keywords were given, candidates exist, none matches, and the
\* whole set came back.
C15_Witness ==
  /\ b_pc = "done"
  /\ b_keywords = << "ltc" >>
  /\ Len(unique_docs) >= 2
  /\ b_out = unique_docs

\* the link is among the collected records
Included(link) ==
  \E i \in 1..Len(all_documents) :
    /\ all_documents[i].url = link.url
    /\ all_documents[i].title = LinkRecord(link, "PDF").title

\* C16: of the links of every section page that was read, a direct document
\* link is always included, whatever its text and the denylist; any other
\* link on the denylist is excluded; every other link is included exactly
\* when its path has at least 3 segments and its text at least 15 characters.
C16_LinkClassification ==
  b_pc \in { "dedup", "filter", "done" } =>
    \A p \in b_loaded : \A k \in 1..Len(PageLinks(p)) :
      LET link == PageLinks(p)[k]
      IN IF IsPdfLink(link.url) THEN Included(link)
         ELSE IF MatchesSkipPattern(link.url) THEN ~Included(link)
         ELSE Included(link) <=>
                (PathSegments(link.url) >= 3 /\ TextLen(link.text) >= 15)

(***************************************************************************)
(* LimraSearchAgent.download_all_results (limra_search_agent.py 1767-1793) *)
(* with download_document as a call that returns a path or None            *)
(* (its handler at 1671-1673 turns every exception into None).             *)
(***************************************************************************)
BATCH_RECORDS ==
  { [ title |-> "Retention Study", url |-> "https://www.limra.com/a.pdf" ],
    [ title |-> "Annuity Sales", url |-> "https://www.limra.com/b.pdf" ] }

\* what download_document returns
BATCH_PATHS == { "limra_downloads/doc.pdf", "limra_downloads/doc_1.pdf" }
DOWNLOAD_RETURNS == BATCH_PATHS \cup { "None" }

BatchInit ==
  /\ bt_pc = "loop"
  /\ search_results \in SeqsUpTo(BATCH_RECORDS, MaxBatch)
  /\ bt_i = 0
  /\ bt_attempts = << >>
  /\ bt_outcomes = << >>
  /\ downloaded_files = << >>

BatchParked ==
  /\ bt_pc = "loop"
  /\ search_results = << >>
  /\ bt_i = 0
  /\ bt_attempts = << >>
  /\ bt_outcomes = << >>
  /\ downloaded_files = << >>

\* lines 1773-1781: the loop takes the next record and calls download_document
BatchBeginItem ==
  /\ bt_pc = "loop"
  /\ bt_i < Len(search_results)
  /\ bt_i' = bt_i + 1
  /\ bt_attempts' = Append(bt_attempts, search_results[bt_i + 1].url)
  /\ bt_pc' = "item"
  /\ UNCHANGED << search_results, bt_outcomes, downloaded_files >>

\* a loop that gives up at the first record that fails
BatchEndItemStopping ==
  /\ bt_pc = "item"
  /\ \E filepath \in DOWNLOAD_RETURNS :
       /\ bt_outcomes' = Append(bt_outcomes, filepath)
       /\ IF filepath # "None"
          THEN /\ downloaded_files' =
                    Append(downloaded_files,
                           [ title |-> search_results[bt_i].title,
                             url |-> search_results[bt_i].url,
                             filepath |-> filepath ])
               /\ bt_pc' = "loop"
          ELSE /\ UNCHANGED downloaded_files
               /\ bt_pc' = "done"
  /\ UNCHANGED << search_results, bt_i, bt_attempts >>

\* lines 1781-1790: a returned path is appended, None is passed over
BatchEndItem ==
  /\ bt_pc = "item"
  /\ \E filepath \in DOWNLOAD_RETURNS :
       /\ bt_outcomes' = Append(bt_outcomes, filepath)
       /\ downloaded_files' =
            IF filepath # "None"
            THEN Append(downloaded_files,
                        [ title |-> search_results[bt_i].title,
                          url |-> search_results[bt_i].url,
                          filepath |-> filepath ])
            ELSE downloaded_files
  /\ bt_pc' = "loop"
  /\ UNCHANGED << search_results, bt_i, bt_attempts >>

\* lines 1792-1793
BatchReturn ==
  /\ bt_pc = "loop"
  /\ bt_i = Len(search_results)
  /\ bt_pc' = "done"
  /\ UNCHANGED << search_results, bt_i, bt_attempts, bt_outcomes, downloaded_files >>

BatchNext ==
  \/ BatchBeginItem /\ UNCHANGED << baseVars, agentVars, filterVars, browseVars, errVars >>
  \/ BatchEndItem /\ UNCHANGED << baseVars, agentVars, filterVars, browseVars, errVars >>
  \/ BatchReturn /\ UNCHANGED << baseVars, agentVars, filterVars, browseVars, errVars >>

RECURSIVE Successes(_, _)
\* the results expected of the first records and of what their calls returned
Successes(records, outcomes) ==
  IF outcomes = << >> \/ records = << >> THEN << >>
  ELSE LET rest == Successes(Tail(records), Tail(outcomes))
       IN IF Head(outcomes) # "None"
          THEN << [ title |-> Head(records).title, url |-> Head(records).url,
                    filepath |-> Head(outcomes) ] >> \o rest
          ELSE rest

\* C17: when download_all_results returns, every record of the batch was
\* attempted exactly once, in order, whatever failed before it, and the
\* result holds exactly one entry with its path for each record whose call
\* returned a path, in batch order, and none for the others.
C17_EveryRecordAttempted ==
  bt_pc = "done" =>
    /\ bt_attempts = [ k \in 1..Len(search_results) |-> search_results[k].url ]
    /\ Len(bt_outcomes) = Len(search_results)
    /\ downloaded_files = Successes(search_results, bt_outcomes)

\* C17 witness: a batch of three whose first download failed and whose later
\* ones succeeded has returned.
C17_Witness ==
  /\ bt_pc = "done"
  /\ Len(search_results) = 3
  /\ bt_outcomes[1] = "None"
  /\ bt_outcomes[2] # "None"
  /\ bt_outcomes[3] # "None"
  /\ Len(downloaded_files) = 2

(***************************************************************************)
(* The error log of SharedState (sub_agents.py 73-87) and the places that  *)
(* report failures to it (web_app.py 170-192, 426-432; sub_agents.py       *)
(* 128-135, 176-197).                                                      *)
(***************************************************************************)
\* errors[-100:]
ERROR_CAP == 100

ErrThreads == { 1, 2 }

\* the ways a pipeline or poller operation fails
FAILURES ==
  { "login_false", "login_raised", "download_raised", "probe_timeout",
    "probe_raised", "run_raised" }

\* the failures whose handler calls add_error: web_app.py 188 and 432,
\* sub_agents.py 193 and 135; not the login that returns False (175-179), not
\* the probe that raises (195-197)
CallsAddError(failure) ==
  failure \in { "login_raised", "download_raised", "probe_timeout", "run_raised" }

\* the last n elements of q
LastN(q, n) == IF Len(q) <= n THEN q ELSE SubSeq(q, Len(q) - n + 1, Len(q))

ErrInit ==
  /\ errors = << >>
  /\ e_clock = 0
  /\ e_base = 0
  /\ e_lock = 0
  /\ e_threads = [ t \in ErrThreads |-> "idle" ]
  /\ e_unlogged = FALSE

ErrParked ==
  /\ errors = << >>
  /\ e_clock = 0
  /\ e_base = 0
  /\ e_lock = 0
  /\ e_threads = [ t \in ErrThreads |-> "idle" ]
  /\ e_unlogged = FALSE

\* an operation of thread t fails: its handler calls add_error or does not
Fail(t) ==
  /\ e_threads[t] = "idle"
  /\ e_clock < MaxErrors
  /\ \E failure \in FAILURES :
       IF CallsAddError(failure)
       THEN /\ e_threads' = [ e_threads EXCEPT ![t] = "add_error" ]
            /\ UNCHANGED e_unlogged
       ELSE /\ e_unlogged' = TRUE
            /\ UNCHANGED e_threads
  /\ UNCHANGED << errors, e_clock, e_base, e_lock >>

\* thread t calls clear_errors
CallClear(t) ==
  /\ e_threads[t] = "idle"
  /\ e_clock > e_base
  /\ e_threads' = [ e_threads EXCEPT ![t] = "clear_errors" ]
  /\ UNCHANGED << errors, e_clock, e_base, e_lock, e_unlogged >>

\* with self._lock, lines 75 and 86
Acquire(t) ==
  /\ e_threads[t] \in { "add_error", "clear_errors" }
  /\ e_lock = 0
  /\ e_lock' = t
  /\ e_threads' = [ e_threads EXCEPT ![t] = IF @ = "add_error" THEN "append" ELSE "reset" ]
  /\ UNCHANGED << errors, e_clock, e_base, e_unlogged >>

\* lines 76-80: errors.append({...}) on the list of the state
AppendError(t) ==
  /\ e_threads[t] = "append"
  /\ errors' = Append(errors, e_clock + 1)
  /\ e_clock' = e_clock + 1
  /\ e_threads' = [ e_threads EXCEPT ![t] = "trim" ]
  /\ UNCHANGED << e_base, e_lock, e_unlogged >>

\* a trim that keeps the oldest entries
TrimKeepingOldest(t) ==
  /\ e_threads[t] = "trim"
  /\ errors' = IF Len(errors) <= ERROR_CAP THEN errors ELSE SubSeq(errors, 1, ERROR_CAP)
  /\ e_lock' = 0
  /\ e_threads' = [ e_threads EXCEPT ![t] = "idle" ]
  /\ UNCHANGED << e_clock, e_base, e_unlogged >>

\* line 82: self._state['errors'] = errors[-100:], and the lock is released
Trim(t) ==
  /\ e_threads[t] = "trim"
  /\ errors' = LastN(errors, ERROR_CAP)
  /\ e_lock' = 0
  /\ e_threads' = [ e_threads EXCEPT ![t] = "idle" ]
  /\ UNCHANGED << e_clock, e_base, e_unlogged >>

\* line 87: self._state['errors'] = [], and the lock is released
Reset(t) ==
  /\ e_threads[t] = "reset"
  /\ errors' = << >>
  /\ e_base' = e_clock
  /\ e_lock' = 0
  /\ e_threads' = [ e_threads EXCEPT ![t] = "idle" ]
  /\ UNCHANGED << e_clock, e_unlogged >>

ErrNext ==
  \/ \E t \in ErrThreads : Fail(t) /\ UNCHANGED << baseVars, agentVars, filterVars, browseVars, batchVars >>
  \/ \E t \in ErrThreads : CallClear(t) /\ UNCHANGED << baseVars, agentVars, filterVars, browseVars, batchVars >>
  \/ \E t \in ErrThreads : Acquire(t) /\ UNCHANGED << baseVars, agentVars, filterVars, browseVars, batchVars >>
  \/ \E t \in ErrThreads : AppendError(t) /\ UNCHANGED << baseVars, agentVars, filterVars, browseVars, batchVars >>
  \/ \E t \in ErrThreads : Trim(t) /\ UNCHANGED << baseVars, agentVars, filterVars, browseVars, batchVars >>
  \/ \E t \in ErrThreads : Reset(t) /\ UNCHANGED << baseVars, agentVars, filterVars, browseVars, batchVars >>

\* C19: every failure of a pipeline or poller operation (login returning
\* false, a login or download task raising, a browser probe timing out or
\* raising, a poller run raising) appends an entry to the error log.
C19_EveryFailureLogged == ~e_unlogged

\* C20: whenever no add_error or clear_errors call is under way, the log holds
\* at most 100 entries, and they are the most recently added ones since the
\* last clear, in insertion order.
C20_BoundedRecentLog ==
  e_lock = 0 =>
    /\ Len(errors) <= ERROR_CAP
    /\ LET n == IF e_clock - e_base <= ERROR_CAP THEN e_clock - e_base ELSE ERROR_CAP
       IN errors = [ k \in 1..n |-> e_clock - n + k ]

\* C20 witness: more than 100 entries were added since the last clear and the
\* log holds 100.
C20_Witness ==
  /\ e_lock = 0
  /\ e_clock - e_base > ERROR_CAP
  /\ Len(errors) = ERROR_CAP

(***************************************************************************)
(* SharedState with its listeners (sub_agents.py 18-87), the in-place      *)
(* writers of DownloadManagerAgent (332-345, 369-374) and UISyncAgent.run  *)
(* (404-422).  A list or dict stored in the state is an object: a thread   *)
(* that got it from get() and the copy UISync kept both hold the object    *)
(* itself, so a change made in place shows through all of them, and        *)
(* comparing the object with itself finds no difference.  last_same tells  *)
(* for each key whether _last_state still holds the object of _state.      *)
(***************************************************************************)
\* largest number of SharedState operations begun in one run
MaxStateOps == 2
\* largest number of runs of UISync in one run
MaxSyncRuns == 2
\* largest number of get_all calls of the readers in one run
MaxReads == 1

KEYS == { "message", "is_running", "errors", "download_queue", "download_progress" }

\* the threads calling into the state; DownloadManagerAgent's methods are
\* called from the first one
StateThreads == { 1, 2 }
DmThreads == { 1 }
\* the callables registered with add_listener, in registration order
Listeners == { 1, 2 }
\* the callables registered with UISyncAgent.add_callback
Callbacks == { 1, 2 }

\* SharedState.__init__, lines 23-35
InitialState ==
  [ k \in KEYS |->
      CASE k = "message"           -> ""
        [] k = "is_running"        -> FALSE
        [] k = "errors"            -> << >>
        [] k = "download_queue"    -> << >>
        [] k = "download_progress" -> [ current |-> 0, total |-> 0, current_file |-> "" ] ]

MESSAGES == { "", "working" }

\* the keyword arguments of update_state: web_app.py 137/406 and 197/440
UPDATES == { "start", "finish" }
\* the keys of an update in the order the dict yields them
UpdateKeys(u) == IF u = "start" THEN << "is_running", "message" >> ELSE << "is_running" >>
UpdateValue(u, k) ==
  IF u = "start" THEN (IF k = "is_running" THEN TRUE ELSE "working") ELSE FALSE

NoUpdate == [ u |-> "finish", i |-> 0 ]

NoNotes == [ l \in Listeners |-> {} ]

StateInit ==
  /\ st = InitialState
  /\ ss_lock = 0
  /\ ss_pc = [ t \in StateThreads |-> "idle" ]
  /\ ss_upd = [ t \in StateThreads |-> NoUpdate ]
  /\ ss_ops = 0
  /\ notes = NoNotes
  /\ note_val = InitialState
  /\ raisers = {}
  /\ last_state = InitialState
  /\ last_same = [ k \in KEYS |-> FALSE ]
  /\ u_prev = InitialState
  /\ u_runs = 0
  /\ u_reported = {}
  /\ u_expected = {}
  /\ u_called = {}
  /\ r_reads = 0
  /\ r_seen = InitialState
  /\ r_torn = FALSE

StateParked ==
  /\ st = InitialState
  /\ ss_lock = 0
  /\ ss_pc = [ t \in StateThreads |-> "idle" ]
  /\ ss_upd = [ t \in StateThreads |-> NoUpdate ]
  /\ ss_ops = 0
  /\ notes = NoNotes
  /\ note_val = InitialState
  /\ raisers = {}
  /\ last_state = InitialState
  /\ last_same = [ k \in KEYS |-> FALSE ]
  /\ u_prev = InitialState
  /\ u_runs = 0
  /\ u_reported = {}
  /\ u_expected = {}
  /\ u_called = {}
  /\ r_reads = 0
  /\ r_seen = InitialState
  /\ r_torn = FALSE

\* the variables of UISync and of the readers
syncVars == << last_state, u_prev, u_runs, u_reported, u_expected, u_called >>
readVars == << r_reads, r_seen, r_torn >>

\* a thread may begin an operation
MayBegin(t) == ss_pc[t] = "idle" /\ ss_ops < MaxStateOps

\* no listener is called in this step
Quiet == notes' = NoNotes /\ raisers' = {} /\ UNCHANGED note_val

\* a loop over the listeners with no handler around the call: the first
\* listener that raises ends the loop and the exception leaves the writer
NotifyPropagating(t, key, value, next) ==
  \E R \in SUBSET Listeners :
    /\ raisers' = R
    /\ notes' = [ l \in Listeners |-> IF \A r \in R : l <= r THEN { key } ELSE {} ]
    /\ note_val' = [ note_val EXCEPT ![key] = value ]
    /\ ss_pc' = [ ss_pc EXCEPT ![t] = IF R = {} THEN next ELSE "raised" ]

\* _notify_listeners, lines 65-71: every listener is called with the key and
\* the value; the listeners of R raise, which is caught and printed
NotifyListeners(t, key, value, next) ==
  \E R \in SUBSET Listeners :
    /\ raisers' = R
    /\ notes' = [ l \in Listeners |-> { key } ]
    /\ note_val' = [ note_val EXCEPT ![key] = value ]
    /\ ss_pc' = [ ss_pc EXCEPT ![t] = next ]

\* the body of set and of one round of update, lines 44-47 and 52-55: a new
\* object is stored under the key, the listeners hear of it when it differs
Store(t, key, value, next) ==
  /\ st' = [ st EXCEPT ![key] = value ]
  /\ last_same' = [ last_same EXCEPT ![key] = FALSE ]
  /\ IF st[key] # value
     THEN NotifyListeners(t, key, value, next)
     ELSE Quiet /\ ss_pc' = [ ss_pc EXCEPT ![t] = next ]

\* a change made inside the object stored under the key: the copy UISync
\* kept shows it too while it holds the same object
InPlace(key, value) ==
  /\ st' = [ st EXCEPT ![key] = value ]
  /\ last_state' = IF last_same[key] THEN [ last_state EXCEPT ![key] = value ]
                   ELSE last_state
  /\ UNCHANGED last_same

\* SharedState.set, lines 42-47
Set(t) ==
  /\ MayBegin(t)
  /\ ss_lock = 0
  /\ ss_ops' = ss_ops + 1
  /\ \E value \in MESSAGES : Store(t, "message", value, "idle")
  /\ UNCHANGED << ss_lock, ss_upd, syncVars, readVars >>

\* SharedState.update, line 50: the lock is taken
UpdateBegin(t) ==
  /\ MayBegin(t)
  /\ ss_lock = 0
  /\ ss_lock' = t
  /\ ss_ops' = ss_ops + 1
  /\ \E u \in UPDATES : ss_upd' = [ ss_upd EXCEPT ![t] = [ u |-> u, i |-> 1 ] ]
  /\ ss_pc' = [ ss_pc EXCEPT ![t] = "update" ]
  /\ Quiet
  /\ UNCHANGED << st, last_same, syncVars, readVars >>

\* one round of the loop of update, lines 51-55; the lock is released after
\* the last key
UpdateKey(t) ==
  /\ ss_pc[t] = "update"
  /\ LET u == ss_upd[t].u
         i == ss_upd[t].i
         key == UpdateKeys(u)[i]
         last == i = Len(UpdateKeys(u))
     IN /\ Store(t, key, UpdateValue(u, key), IF last THEN "idle" ELSE "update")
        /\ ss_upd' = [ ss_upd EXCEPT ![t] = IF last THEN NoUpdate ELSE [ u |-> u, i |-> i + 1 ] ]
        /\ ss_lock' = IF last THEN 0 ELSE ss_lock
  /\ UNCHANGED << ss_ops, syncVars, readVars >>

\* add_error, lines 75-80: the entry is appended to the list of the state
AddErrorAppend(t) ==
  /\ MayBegin(t)
  /\ ss_lock = 0
  /\ ss_lock' = t
  /\ ss_ops' = ss_ops + 1
  /\ InPlace("errors", Append(st["errors"], ss_ops + 1))
  /\ ss_pc' = [ ss_pc EXCEPT ![t] = "add_error" ]
  /\ Quiet
  /\ UNCHANGED << ss_upd, u_prev, u_runs, u_reported, u_expected, u_called, readVars >>

\* add_error, line 82: the slice, a new list, is stored; no listener is called
AddErrorStore(t) ==
  /\ ss_pc[t] = "add_error"
  /\ st' = [ st EXCEPT !["errors"] = LastN(st["errors"], ERROR_CAP) ]
  /\ last_same' = [ last_same EXCEPT !["errors"] = FALSE ]
  /\ ss_lock' = 0
  /\ ss_pc' = [ ss_pc EXCEPT ![t] = "idle" ]
  /\ Quiet
  /\ UNCHANGED << ss_upd, ss_ops, syncVars, readVars >>

\* clear_errors, lines 84-87
ClearErrors(t) ==
  /\ MayBegin(t)
  /\ ss_lock = 0
  /\ ss_ops' = ss_ops + 1
  /\ st' = [ st EXCEPT !["errors"] = << >> ]
  /\ last_same' = [ last_same EXCEPT !["errors"] = FALSE ]
  /\ Quiet
  /\ UNCHANGED << ss_lock, ss_pc, ss_upd, syncVars, readVars >>

\* add_to_queue, lines 335-336: get returns the list of the state, which
\* extend changes in place
QueueExtend(t) ==
  /\ t \in DmThreads
  /\ MayBegin(t)
  /\ ss_lock = 0
  /\ ss_ops' = ss_ops + 1
  /\ \E documents \in { << >>, << "doc" >> } :
       InPlace("download_queue", st["download_queue"] \o documents)
  /\ ss_pc' = [ ss_pc EXCEPT ![t] = "queue_set" ]
  /\ Quiet
  /\ UNCHANGED << ss_lock, ss_upd, u_prev, u_runs, u_reported, u_expected, u_called,
                  readVars >>

\* add_to_queue, line 337: set is handed the object the state holds already
QueueSet(t) ==
  /\ ss_pc[t] = "queue_set"
  /\ ss_lock = 0
  /\ ss_pc' = [ ss_pc EXCEPT ![t] = "queue_progress" ]
  /\ Quiet
  /\ UNCHANGED << st, last_same, ss_lock, ss_upd, ss_ops, syncVars, readVars >>

\* add_to_queue, lines 338-344: update with a new download_progress dict
QueueProgress(t) ==
  /\ ss_pc[t] = "queue_progress"
  /\ ss_lock = 0
  /\ Store(t, "download_progress",
           [ current |-> 0, total |-> Len(st["download_queue"]), current_file |-> "" ],
           "idle")
  /\ UNCHANGED << ss_lock, ss_upd, ss_ops, syncVars, readVars >>

\* update_progress, lines 371-373: get returns the dict of the state, whose
\* entries are assigned
ProgressMutate(t) ==
  /\ t \in DmThreads
  /\ MayBegin(t)
  /\ ss_lock = 0
  /\ ss_ops' = ss_ops + 1
  /\ \E current \in { 0, 1 }, current_file \in { "", "a.pdf" } :
       InPlace("download_progress",
               [ st["download_progress"] EXCEPT !.current = current,
                                                !.current_file = current_file ])
  /\ ss_pc' = [ ss_pc EXCEPT ![t] = "progress_set" ]
  /\ Quiet
  /\ UNCHANGED << ss_lock, ss_upd, u_prev, u_runs, u_reported, u_expected, u_called,
                  readVars >>

\* update_progress, line 374: set is handed the object the state holds already
ProgressSet(t) ==
  /\ ss_pc[t] = "progress_set"
  /\ ss_lock = 0
  /\ ss_pc' = [ ss_pc EXCEPT ![t] = "idle" ]
  /\ Quiet
  /\ UNCHANGED << st, last_same, ss_lock, ss_upd, ss_ops, syncVars, readVars >>

\* a state in which some update({...}) has written some of its keys only
HalfWritten == \E w \in StateThreads : ss_pc[w] = "update" /\ ss_upd[w].i > 1

\* a get_all that does not wait for the lock
GetAllUnguarded(t) ==
  /\ ss_pc[t] = "idle"
  /\ r_reads < MaxReads
  /\ r_reads' = r_reads + 1
  /\ r_seen' = st
  /\ r_torn' = (r_torn \/ HalfWritten)
  /\ Quiet
  /\ UNCHANGED << st, last_same, ss_lock, ss_pc, ss_upd, ss_ops, syncVars >>

\* get_all, lines 57-59, called by a thread other than the writers' own
GetAll(t) ==
  /\ ss_pc[t] = "idle"
  /\ ss_lock = 0
  /\ r_reads < MaxReads
  /\ r_reads' = r_reads + 1
  /\ r_seen' = st
  /\ r_torn' = (r_torn \/ HalfWritten)
  /\ Quiet
  /\ UNCHANGED << st, last_same, ss_lock, ss_pc, ss_upd, ss_ops, syncVars >>

\* the changes UISyncAgent.run computes, lines 409-412
Changes ==
  IF u_runs = 0 THEN KEYS ELSE { k \in KEYS : last_state[k] # st[k] }

\* UISyncAgent.run, lines 404-422: get_all, the diff against _last_state, the
\* callbacks (those of R raise, which is caught), the new _last_state
UISyncRun ==
  /\ u_runs < MaxSyncRuns
  /\ ss_lock = 0
  /\ u_runs' = u_runs + 1
  /\ u_reported' = Changes
  /\ u_expected' = IF u_runs = 0 THEN KEYS ELSE { k \in KEYS : u_prev[k] # st[k] }
  /\ \E R \in SUBSET Callbacks :
       /\ raisers' = (IF Changes = {} THEN {} ELSE R)
       /\ u_called' = IF Changes = {} THEN {} ELSE Callbacks
  /\ last_state' = st
  /\ last_same' = [ k \in KEYS |-> TRUE ]
  /\ u_prev' = st
  /\ notes' = NoNotes
  /\ UNCHANGED << st, ss_lock, ss_pc, ss_upd, ss_ops, note_val, readVars >>

StateNext ==
  \/ \E t \in StateThreads : Set(t) /\ UNCHANGED << baseVars, midVars, pollVars, storeVars, extraVars >>
  \/ \E t \in StateThreads : UpdateBegin(t) /\ UNCHANGED << baseVars, midVars, pollVars, storeVars, extraVars >>
  \/ \E t \in StateThreads : UpdateKey(t) /\ UNCHANGED << baseVars, midVars, pollVars, storeVars, extraVars >>
  \/ \E t \in StateThreads : AddErrorAppend(t) /\ UNCHANGED << baseVars, midVars, pollVars, storeVars, extraVars >>
  \/ \E t \in StateThreads : AddErrorStore(t) /\ UNCHANGED << baseVars, midVars, pollVars, storeVars, extraVars >>
  \/ \E t \in StateThreads : ClearErrors(t) /\ UNCHANGED << baseVars, midVars, pollVars, storeVars, extraVars >>
  \/ \E t \in StateThreads : QueueExtend(t) /\ UNCHANGED << baseVars, midVars, pollVars, storeVars, extraVars >>
  \/ \E t \in StateThreads : QueueSet(t) /\ UNCHANGED << baseVars, midVars, pollVars, storeVars, extraVars >>
  \/ \E t \in StateThreads : QueueProgress(t) /\ UNCHANGED << baseVars, midVars, pollVars, storeVars, extraVars >>
  \/ \E t \in StateThreads : ProgressMutate(t) /\ UNCHANGED << baseVars, midVars, pollVars, storeVars, extraVars >>
  \/ \E t \in StateThreads : ProgressSet(t) /\ UNCHANGED << baseVars, midVars, pollVars, storeVars, extraVars >>
  \/ \E t \in StateThreads : GetAll(t) /\ UNCHANGED << baseVars, midVars, pollVars, storeVars, extraVars >>
  \/ UISyncRun /\ UNCHANGED << baseVars, midVars, pollVars, storeVars, extraVars >>

\* C21: every change of the value under a key is notified in the same step to
\* every registered listener with that key and the new value, and a step
\* that leaves the value unchanged notifies no listener.
C21_EveryChangeNotified ==
  [][\A k \in KEYS : \A l \in Listeners :
       (st'[k] # st[k]) <=> (k \in notes'[l] /\ note_val'[k] = st'[k])]_vars

\* C22: no get_all of another thread returns while an update({...}) has
\* written only some of its keys, and at most one thread is inside the body
\* of update or add_error, the one holding the lock.
C22_AtomicUpdates ==
  /\ ~r_torn
  /\ \A t, w \in StateThreads :
       (ss_pc[t] \in { "update", "add_error" } /\ ss_pc[w] \in { "update", "add_error" })
         => t = w
  /\ \A t \in StateThreads : ss_pc[t] \in { "update", "add_error" } => ss_lock = t

\* C22 witness: a reader has seen both keys of a finished update while the
\* next update of another thread is half written.
C22_Witness ==
  /\ r_reads > 0
  /\ r_seen["is_running"] = TRUE
  /\ r_seen["message"] = "working"
  /\ HalfWritten
  /\ ~r_torn

\* C26: after each run of UISync but the first, the keys handed to the
\* callbacks are exactly the keys whose values differ from the values at the
\* previous run, and the callbacks are invoked exactly when that set is not
\* empty.
C26_ExactChangeDetection ==
  u_runs > 1 =>
    /\ u_reported = u_expected
    /\ (u_called = {}) <=> (u_expected = {})

\* C27: a listener or callback that raises stops nothing: no thread is left
\* by the exception, the write that called the listeners has stored the
\* value and every listener was called with it, and a run of UISync whose
\* callback raises still calls every callback and keeps its new snapshot.
C27_RaisingListenerContained ==
  [][/\ \A t \in StateThreads : ss_pc'[t] # "raised"
     /\ (raisers' # {} /\ u_runs' = u_runs) =>
          \E k \in KEYS :
            /\ st'[k] = note_val'[k]
            /\ \A l \in Listeners : notes'[l] = { k }
     /\ (raisers' # {} /\ u_runs' # u_runs) =>
          /\ u_called' = Callbacks
          /\ last_state' = st']_vars

\* C27 witness: the first listener raised on a write and the second one was
\* called with the value that was stored.
C27_Witness ==
  /\ 1 \in raisers
  /\ \E k \in notes[2] : st[k] = note_val[k] /\ st[k] # InitialState[k]
  /\ \A t \in StateThreads : ss_pc[t] # "raised"

(***************************************************************************)
(* The pollers that look at the live page: BrowserControllerAgent          *)
(* (sub_agents.py 152-221) and SessionManagerAgent (224-320), next to the  *)
(* pipeline thread that owns the page.                                     *)
(***************************************************************************)
\* largest number of poller runs in one run of the model
MaxPollRuns == 2

\* the page operations that only read
READ_ONLY_OPS == { "is_closed", "evaluate_constant", "content", "url", "storage_state" }

\* the outcomes of asyncio.wait_for(self._check_page_alive(), timeout=5.0)
PROBE_OUTCOMES == { "ok", "timeout", "raised" }

\* logout_indicators and login_indicators of _check_login_status, 272 and 278
sm_logout_indicators == << "logout", "log out", "sign out", "signout" >>
sm_login_indicators == << "login", "log in", "sign in", "signin" >>

\* SessionManagerAgent._check_login_status, lines 262-291; fail says that
\* page.content() raises
CheckLoginStatus(s, flag, page, fail) ==
  IF page # "open" THEN FALSE
  ELSE IF fail THEN FALSE
  ELSE IF AnyIn(sm_logout_indicators, s.content, 1) THEN TRUE
  ELSE IF AnyIn(sm_login_indicators, s.content, 1) THEN FALSE
  ELSE IF UrlLowerHas(s.url, "login") THEN FALSE
  ELSE flag

\* a check that reloads the page before it reads it
CheckLoginStatusOpsReloading(s, page, fail) ==
  IF page # "open" THEN { "is_closed" }
  ELSE IF fail THEN { "is_closed", "reload", "content" }
  ELSE { "is_closed", "reload", "content", "url" }

\* the page operations _check_login_status issues on its way
CheckLoginStatusOps(s, page, fail) ==
  IF page # "open" THEN { "is_closed" }
  ELSE IF fail THEN { "is_closed", "content" }
  ELSE IF AnyIn(sm_logout_indicators, s.content, 1) \/ AnyIn(sm_login_indicators, s.content, 1)
       THEN { "is_closed", "content" }
  ELSE { "is_closed", "content", "url" }

\* the pages the pollers are run on: every url and cookie set, one marker at most
POLL_PAGES == { s \in Snapshots : Cardinality(s.content) <= 1 }

NoBrowserRun == [ probe |-> "none", set |-> "none", logged |-> FALSE ]
NoSessionRun ==
  [ run |-> 0, read |-> FALSE, derived |-> FALSE, before |-> FALSE, saved |-> "no" ]

PollInit ==
  /\ p_page = "none"
  /\ p_snap \in POLL_PAGES
  /\ sh_logged_in \in BOOLEAN
  /\ browser_status = "closed"
  /\ p_ops = {}
  /\ pipe_ops = {}
  /\ p_runs = 0
  /\ b_last = NoBrowserRun
  /\ s_last = NoSessionRun
  /\ p_session = "absent"

PollParked ==
  /\ p_page = "none"
  /\ p_snap = BlankPage
  /\ sh_logged_in = FALSE
  /\ browser_status = "closed"
  /\ p_ops = {}
  /\ pipe_ops = {}
  /\ p_runs = 0
  /\ b_last = NoBrowserRun
  /\ s_last = NoSessionRun
  /\ p_session = "absent"

\* AgentManager.set_browser_refs, lines 474-477 with 162-167 and 234-237
SetBrowserRefs ==
  /\ p_page = "none"
  /\ p_page' = "open"
  /\ browser_status' = "ready"
  /\ UNCHANGED << p_snap, sh_logged_in, p_ops, pipe_ops, p_runs, b_last,
                  s_last, p_session >>

\* the pipeline thread drives the page: a navigation to the home page
PipelineGoto ==
  /\ p_page = "open"
  /\ "goto" \notin pipe_ops
  /\ pipe_ops' = pipe_ops \cup { "goto" }
  /\ p_snap' = [ p_snap EXCEPT !.url = "https://www.limra.com/" ]
  /\ UNCHANGED << p_page, sh_logged_in, browser_status, p_ops, p_runs,
                  b_last, s_last, p_session >>

\* the pipeline thread closes the page while the pollers keep their reference
PipelineClose ==
  /\ p_page = "open"
  /\ p_page' = "closed"
  /\ UNCHANGED << p_snap, sh_logged_in, browser_status, p_ops, pipe_ops, p_runs,
                  b_last, s_last, p_session >>

\* BrowserControllerAgent.run with _check_page_alive, lines 176-205; logged
\* says that the run called add_error
BrowserRun ==
  /\ p_runs < MaxPollRuns
  /\ p_runs' = p_runs + 1
  /\ IF p_page = "none"
     THEN /\ b_last' = [ probe |-> "skipped", set |-> "none", logged |-> FALSE ]
          /\ UNCHANGED << browser_status, p_ops >>
     ELSE IF p_page = "closed"
     THEN \* _check_page_alive returns False and run goes on to line 187
          /\ b_last' = [ probe |-> "not_run", set |-> "ready", logged |-> FALSE ]
          /\ browser_status' = "ready"
          /\ p_ops' = p_ops \cup { "is_closed" }
     ELSE \E outcome \in PROBE_OUTCOMES :
            /\ p_ops' = p_ops \cup { "is_closed", "evaluate_constant" }
            /\ browser_status' = IF outcome = "ok" THEN "ready" ELSE "error"
            /\ b_last' = [ probe |-> outcome,
                           set |-> IF outcome = "ok" THEN "ready" ELSE "error",
                           logged |-> outcome = "timeout" ]
  /\ UNCHANGED << p_page, p_snap, sh_logged_in, pipe_ops, s_last, p_session >>

\* SessionManagerAgent.run with _check_login_status and _save_session, lines
\* 239-307; written says that the session file could be written
SessionRun ==
  /\ p_runs < MaxPollRuns
  /\ p_page # "none"
  /\ p_runs' = p_runs + 1
  /\ \E fail \in BOOLEAN, written \in BOOLEAN :
       LET is_logged_in_now == CheckLoginStatus(p_snap, sh_logged_in, p_page, fail)
           changed == is_logged_in_now # sh_logged_in
       IN /\ sh_logged_in' = is_logged_in_now
          /\ p_ops' = p_ops \cup CheckLoginStatusOps(p_snap, p_page, fail)
                            \cup (IF changed /\ is_logged_in_now THEN { "storage_state" } ELSE {})
          /\ p_session' = IF changed /\ is_logged_in_now /\ written THEN "resaved" ELSE p_session
          /\ s_last' = [ run |-> p_runs + 1, read |-> (p_page = "open" /\ ~fail),
                         derived |-> is_logged_in_now, before |-> sh_logged_in,
                         saved |-> IF changed /\ is_logged_in_now
                                   THEN (IF written THEN "yes" ELSE "failed")
                                   ELSE "no" ]
  /\ UNCHANGED << p_page, p_snap, browser_status, pipe_ops, b_last >>

\* SessionManagerAgent.run with no page attached, lines 241-242
SessionRunIdle ==
  /\ p_runs < MaxPollRuns
  /\ p_page = "none"
  /\ p_runs' = p_runs + 1
  /\ UNCHANGED << p_page, p_snap, sh_logged_in, browser_status, p_ops,
                  pipe_ops, b_last, s_last, p_session >>

PollNext ==
  \/ SetBrowserRefs /\ UNCHANGED << baseVars, midVars, stateVars, storeVars, extraVars >>
  \/ PipelineGoto /\ UNCHANGED << baseVars, midVars, stateVars, storeVars, extraVars >>
  \/ PipelineClose /\ UNCHANGED << baseVars, midVars, stateVars, storeVars, extraVars >>
  \/ BrowserRun /\ UNCHANGED << baseVars, midVars, stateVars, storeVars, extraVars >>
  \/ SessionRun /\ UNCHANGED << baseVars, midVars, stateVars, storeVars, extraVars >>
  \/ SessionRunIdle /\ UNCHANGED << baseVars, midVars, stateVars, storeVars, extraVars >>

\* C23: a run of the browser-health poller sets browser_status to ready only
\* when the probe was executed with success on an open page; when the probe
\* times out or raises it sets error and appends an error entry; with no page
\* attached it changes nothing.
C23_BrowserHealth ==
  /\ b_last.set = "ready" => b_last.probe = "ok"
  /\ b_last.probe \in { "timeout", "raised" } => (b_last.set = "error" /\ b_last.logged)
  /\ b_last.probe = "skipped" => (b_last.set = "none" /\ ~b_last.logged)

\* C24: on every page snapshot and every value of the shared login flag, the
\* verdict of _check_login_status on an open page that can be read is the
\* verdict of _check_if_logged_in on that snapshot.
C24_SameVerdictAsValidation ==
  [][(s_last'.run # s_last.run /\ s_last'.read) =>
       s_last'.derived = CheckIfLoggedIn(p_snap, "none")]_vars

\* C25: a run of the session-health poller that derives a status different
\* from the shared flag, in either direction, sets the flag to it and
\* persists the session; a run that derives the same status does neither.
C25_TransitionPersists ==
  s_last.run > 0 =>
    IF s_last.derived # s_last.before
    THEN sh_logged_in = s_last.derived /\ s_last.saved = "yes"
    ELSE sh_logged_in = s_last.before /\ s_last.saved = "no"

\* C28: the pollers issue read-only probes only on the live page (is_closed,
\* evaluate of a constant, content, url) and the storage_state read of the
\* session re-save, whatever the pipeline thread does in between.
C28_PollersOnlyRead == p_ops \subseteq READ_ONLY_OPS

\* C28 witness: the pipeline has navigated, the browser poller has probed
\* the page and the session poller has re-saved the session.
C28_Witness ==
  /\ "goto" \in pipe_ops
  /\ { "evaluate_constant", "content", "storage_state" } \subseteq p_ops
  /\ p_session = "resaved"

(***************************************************************************)
(* The download root as the operations that write and delete files see it: *)
(* load_session (limra_search_agent.py 127-161), the files login() writes  *)
(* (280, 355-362, 648, 747-753, 799, 836), SessionManagerAgent's re-save   *)
(* (sub_agents.py 293-307), delete_file and delete_all_files (web_app.py   *)
(* 567-624).                                                               *)
(***************************************************************************)
\* largest number of operations on the download root in one run
MaxStoreOps == 3

SESSION_FILE == "limra_session.json"

\* the log and the diagnostic snapshots login() writes
DIAGNOSTICS ==
  { "login_debug_20260101_120000.log", "debug_login_page.html",
    "debug_login_screenshot.png", "debug_password_step.png",
    "login_failed_screenshot.png", "login_error_screenshot.png" }

STORE_FILES == { SESSION_FILE, "Report.pdf" } \cup DIAGNOSTICS

\* Path.suffix
Suffix(name) ==
  CASE name = SESSION_FILE                       -> ".json"
    [] name = "login_debug_20260101_120000.log"  -> ".log"
    [] name = "debug_login_page.html"            -> ".html"
    [] name = "Report.pdf"                       -> ".pdf"
    [] OTHER                                     -> ".png"

\* needle in f.name.lower(), for the needles 'debug' and 'session'
NameLowerHas(name, needle) ==
  \/ needle = "session" /\ name = SESSION_FILE
  \/ needle = "debug" /\ name \in { "login_debug_20260101_120000.log",
                                    "debug_login_page.html", "debug_login_screenshot.png",
                                    "debug_password_step.png" }

\* the test of line 603: the file is skipped by delete_all_files
Skipped(name) ==
  \/ Suffix(name) \in { ".log", ".json" }
  \/ NameLowerHas(name, "debug")
  \/ NameLowerHas(name, "session")

\* the diagnostic files one failed login() leaves next to its log
FAILURE_SNAPSHOTS ==
  { { "debug_login_page.html", "debug_login_screenshot.png" },
    { "debug_password_step.png" },
    { "login_failed_screenshot.png" },
    { "login_error_screenshot.png" } }

StoreInit ==
  /\ fs_files \in { {}, { SESSION_FILE } }
  /\ fs_session = 0
  /\ fs_last = [ n |-> 0, op |-> "none" ]

StoreParked ==
  /\ fs_files = {}
  /\ fs_session = 0
  /\ fs_last = [ n |-> 0, op |-> "none" ]

\* the n-th operation is op
Op(op) ==
  /\ fs_last.n < MaxStoreOps
  /\ fs_last' = [ n |-> fs_last.n + 1, op |-> op ]

\* load_session: the file is read; it is kept whether the session is taken
\* or rejected
StoreLoadSession ==
  /\ \E verdict \in { "load_accepted", "load_rejected" } :
       /\ verdict = "load_accepted" => SESSION_FILE \in fs_files
       /\ Op(verdict)
  /\ UNCHANGED << fs_files, fs_session >>

\* login() ends with success: the log is written and the session file
\* overwritten (the write may fail where its handler only logs, 308-315)
StoreLoginSucceeds ==
  /\ \/ /\ Op("login_saved")
        /\ fs_files' = fs_files \cup { SESSION_FILE, "login_debug_20260101_120000.log" }
        /\ fs_session' = fs_last.n + 1
     \/ /\ Op("login_unsaved")
        /\ fs_files' = fs_files \cup { "login_debug_20260101_120000.log" }
        /\ UNCHANGED fs_session

\* login() ends with failure: the log and the diagnostic snapshots are written
StoreLoginFails ==
  /\ Op("login_failed")
  /\ \E shots \in FAILURE_SNAPSHOTS :
       fs_files' = fs_files \cup { "login_debug_20260101_120000.log" } \cup shots
  /\ UNCHANGED fs_session

\* SessionManagerAgent._save_session: the poller overwrites the session file
StorePollerSave ==
  /\ Op("poller_save")
  /\ fs_files' = fs_files \cup { SESSION_FILE }
  /\ fs_session' = fs_last.n + 1

\* download_document leaves a document in the folder
StoreDownload ==
  /\ Op("download")
  /\ fs_files' = fs_files \cup { "Report.pdf" }
  /\ UNCHANGED fs_session

\* delete_file, web_app.py 567-588: any file of the folder
StoreDeleteFile ==
  /\ Op("delete_file")
  /\ \E name \in fs_files :
       /\ fs_files' = fs_files \ { name }
       /\ fs_session' = IF name = SESSION_FILE THEN 0 ELSE fs_session

\* delete_all_files, web_app.py 592-624: the files not skipped are unlinked;
\* an unlink may fail
DeleteAllFiles ==
  /\ Op("delete_all")
  /\ \E failed \in SUBSET { f \in fs_files : f = "Report.pdf" } :
       fs_files' = { f \in fs_files : Skipped(f) \/ f \in failed }
  /\ UNCHANGED fs_session

StoreNext ==
  \/ StoreLoadSession /\ UNCHANGED << baseVars, midVars, stateVars, pollVars, extraVars >>
  \/ StoreLoginSucceeds /\ UNCHANGED << baseVars, midVars, stateVars, pollVars, extraVars >>
  \/ StoreLoginFails /\ UNCHANGED << baseVars, midVars, stateVars, pollVars, extraVars >>
  \/ StorePollerSave /\ UNCHANGED << baseVars, midVars, stateVars, pollVars, extraVars >>
  \/ StoreDownload /\ UNCHANGED << baseVars, midVars, stateVars, pollVars, extraVars >>
  \/ StoreDeleteFile /\ UNCHANGED << baseVars, midVars, stateVars, pollVars, extraVars >>
  \/ DeleteAllFiles /\ UNCHANGED << baseVars, midVars, stateVars, pollVars, extraVars >>

\* C29: a load_session that rejects the stored session and delete_all_files
\* leave the session file in place with its content; delete_all_files leaves
\* the log and diagnostic files in place; and the content of the session
\* file is replaced by a successful login only.
C29_SessionFileKept ==
  [][/\ (fs_last'.op \in { "load_rejected", "delete_all" } /\ SESSION_FILE \in fs_files) =>
          (SESSION_FILE \in fs_files' /\ fs_session' = fs_session)
     /\ fs_last'.op = "delete_all" => (fs_files \cap DIAGNOSTICS) \subseteq fs_files'
     /\ (SESSION_FILE \in fs_files /\ SESSION_FILE \in fs_files' /\ fs_session' # fs_session) =>
          fs_last'.op = "login_saved"]_vars

(***************************************************************************)
(* The CAPTCHA wait of login() (limra_search_agent.py 372-419): after the  *)
(* reCAPTCHA frame is found the page is polled once a second.  Each        *)
(* iteration reads page.url and then the g-recaptcha-response field; a     *)
(* failure of either read is swallowed by a bare except.                   *)
(***************************************************************************)
\* range(90), line 383
CAPTCHA_CEILING == 90

UrlRaises == "raises"

\* what page.url can yield during the wait
CAPTCHA_URLS ==
  { "https://www.limra.com/login/", "https://www.limra.com/",
    "https://www.limra.com/en/discovery/", "https://www.loma.org/en/", UrlRaises }

\* what the evaluate of line 397 can yield: no or an empty field, a token, a failure
CAPTCHA_RESPONSES == { "null", "token", "raises" }

\* line 389
AutoLoggedIn(u) ==
  /\ UrlRawHas(u, "limra.com")
  /\ ~UrlLowerHas(u, "login")
  /\ ~UrlLowerHas(u, "discovery")

\* the page is no longer on the login URL
LeftLoginUrl(u) == u # UrlRaises /\ ~UrlLowerHas(u, "login")

CaptchaInit ==
  /\ c_pc = "detect"
  /\ c_i = 0
  /\ c_url = "https://www.limra.com/login/"
  /\ c_resp = "null"
  /\ c_end = "none"
  /\ c_missed = FALSE

CaptchaParked ==
  /\ c_pc = "detect"
  /\ c_i = 0
  /\ c_url = "https://www.limra.com/login/"
  /\ c_resp = "null"
  /\ c_end = "none"
  /\ c_missed = FALSE

\* lines 374-380 and 415-416: the search for the reCAPTCHA frame; a timeout
\* of wait_for_selector is logged and login() goes on
CaptchaDetect ==
  /\ c_pc = "detect"
  /\ \/ c_pc' = "done" /\ c_end' = "no_frame"
     \/ c_pc' = "poll" /\ c_end' = c_end
  /\ UNCHANGED << c_i, c_url, c_resp, c_missed >>

\* one iteration of the loop, lines 383-413; after the last one the else
\* branch of the for statement logs the timeout and login() goes on
CaptchaPoll ==
  /\ c_pc = "poll"
  /\ c_i < CAPTCHA_CEILING
  /\ c_i' = c_i + 1
  /\ \E u \in CAPTCHA_URLS, resp \in CAPTCHA_RESPONSES :
       /\ c_url' = u
       /\ IF u # UrlRaises /\ AutoLoggedIn(u)
          THEN /\ c_pc' = "done"
               /\ c_end' = "url"
               /\ UNCHANGED << c_resp, c_missed >>
          ELSE /\ c_resp' = resp
               /\ IF resp = "token"
                  THEN /\ c_pc' = "done"
                       /\ c_end' = "response"
                       /\ UNCHANGED c_missed
                  ELSE /\ c_missed' = (c_missed \/ LeftLoginUrl(u))
                       /\ c_pc' = IF c_i + 1 = CAPTCHA_CEILING THEN "done" ELSE "poll"
                       /\ c_end' = IF c_i + 1 = CAPTCHA_CEILING THEN "ceiling" ELSE c_end

CaptchaNext ==
  \/ CaptchaDetect /\ UNCHANGED << baseVars, midVars, stateVars, pollVars, storeVars, loopVars, queueVars >>
  \/ CaptchaPoll /\ UNCHANGED << baseVars, midVars, stateVars, pollVars, storeVars, loopVars, queueVars >>

\* C32: the CAPTCHA wait ends after at most 90 polling iterations; no
\* iteration in which the page has left the login URL or a solved-challenge
\* response is present is followed by another one; and when the ceiling is
\* reached the wait is over and login() goes on to its next step.
C32_BoundedNonFatalWait ==
  /\ c_i <= CAPTCHA_CEILING
  /\ ~c_missed
  /\ c_end = "ceiling" => (c_pc = "done" /\ c_i = CAPTCHA_CEILING)

(***************************************************************************)
(* The life cycle of a SubAgent (sub_agents.py 100-136): start() and       *)
(* stop() are called one after the other by one caller; every start() that *)
(* finds the flag cleared creates a thread that executes _main_loop.       *)
(***************************************************************************)
\* largest number of threads created in one run
MaxLoopThreads == 2
\* largest number of start() and stop() calls in one run
MaxLifecycleCalls == 3
\* largest number of runs begun in one run
MaxLoopRuns == 3

LoopThreads == 1..MaxLoopThreads

\* the threads inside _main_loop
InLoop == { t \in LoopThreads : a_pc[t] \in { "test", "run", "sleep" } }

LoopInit ==
  /\ a_running = FALSE
  /\ a_thread = 0
  /\ a_pc = [ t \in LoopThreads |-> "unborn" ]
  /\ a_ctl = "idle"
  /\ a_calls = 0
  /\ a_runs = 0
  /\ a_errors = 0
  /\ a_raised = FALSE
  /\ a_stopped = {}
  /\ a_after = [ t \in LoopThreads |-> 0 ]

LoopParked ==
  /\ a_running = FALSE
  /\ a_thread = 0
  /\ a_pc = [ t \in LoopThreads |-> "unborn" ]
  /\ a_ctl = "idle"
  /\ a_calls = 0
  /\ a_runs = 0
  /\ a_errors = 0
  /\ a_raised = FALSE
  /\ a_stopped = {}
  /\ a_after = [ t \in LoopThreads |-> 0 ]

\* start(), lines 100-108
Start ==
  /\ a_ctl = "idle"
  /\ a_calls < MaxLifecycleCalls
  /\ a_calls' = a_calls + 1
  /\ IF a_running
     THEN UNCHANGED << a_running, a_thread, a_pc >>
     ELSE \E t \in LoopThreads :
            /\ a_pc[t] = "unborn"
            /\ \A o \in LoopThreads : o < t => a_pc[o] # "unborn"
            /\ a_running' = TRUE
            /\ a_thread' = t
            /\ a_pc' = [ a_pc EXCEPT ![t] = "test" ]
  /\ UNCHANGED << a_ctl, a_runs, a_errors, a_raised, a_stopped, a_after >>

\* stop(), lines 110-114: the flag is cleared, then the join begins
Stop ==
  /\ a_ctl = "idle"
  /\ a_calls < MaxLifecycleCalls
  /\ a_calls' = a_calls + 1
  /\ a_running' = FALSE
  /\ a_ctl' = IF a_thread # 0 THEN "joining" ELSE "idle"
  /\ a_stopped' = a_stopped \cup InLoop
  /\ a_after' = [ t \in LoopThreads |-> IF t \in InLoop THEN 0 ELSE a_after[t] ]
  /\ UNCHANGED << a_thread, a_pc, a_runs, a_errors, a_raised >>

\* join(timeout=5), line 114: returns when the thread has ended, or after
\* five seconds spent by the thread in run() or in the sleep of the interval
JoinReturns ==
  /\ a_ctl = "joining"
  /\ a_pc[a_thread] \in { "dead", "run", "sleep" }
  /\ a_ctl' = "idle"
  /\ UNCHANGED << a_running, a_thread, a_pc, a_calls, a_runs, a_errors, a_raised,
                  a_stopped, a_after >>

\* while self._running, line 130; with the flag cleared _main_loop returns
\* and the thread ends (117-126)
LoopTest(t) ==
  /\ a_pc[t] = "test"
  /\ IF a_running
     THEN /\ a_runs < MaxLoopRuns
          /\ a_runs' = a_runs + 1
          /\ a_pc' = [ a_pc EXCEPT ![t] = "run" ]
          /\ a_after' = [ a_after EXCEPT ![t] = IF t \in a_stopped THEN @ + 1 ELSE @ ]
     ELSE /\ a_pc' = [ a_pc EXCEPT ![t] = "dead" ]
          /\ UNCHANGED << a_runs, a_after >>
  /\ UNCHANGED << a_running, a_thread, a_ctl, a_calls, a_errors, a_raised, a_stopped >>

\* lines 131-136: run() returns or raises; an Exception is printed and
\* handed to add_error; then the thread sleeps for the interval
LoopRun(t) ==
  /\ a_pc[t] = "run"
  /\ \E raised \in BOOLEAN :
       /\ a_raised' = raised
       /\ a_errors' = IF raised THEN a_errors + 1 ELSE a_errors
  /\ a_pc' = [ a_pc EXCEPT ![t] = "sleep" ]
  /\ UNCHANGED << a_running, a_thread, a_ctl, a_calls, a_runs, a_stopped, a_after >>

\* line 136: asyncio.sleep(get_interval()) is over
LoopWake(t) ==
  /\ a_pc[t] = "sleep"
  /\ a_pc' = [ a_pc EXCEPT ![t] = "test" ]
  /\ UNCHANGED << a_running, a_thread, a_ctl, a_calls, a_runs, a_errors, a_raised,
                  a_stopped, a_after >>

LoopNext ==
  \/ Start /\ UNCHANGED << baseVars, midVars, stateVars, pollVars, storeVars, captchaVars, queueVars >>
  \/ Stop /\ UNCHANGED << baseVars, midVars, stateVars, pollVars, storeVars, captchaVars, queueVars >>
  \/ JoinReturns /\ UNCHANGED << baseVars, midVars, stateVars, pollVars, storeVars, captchaVars, queueVars >>
  \/ \E t \in LoopThreads : LoopTest(t) /\ UNCHANGED << baseVars, midVars, stateVars, pollVars, storeVars, captchaVars, queueVars >>
  \/ \E t \in LoopThreads : LoopRun(t) /\ UNCHANGED << baseVars, midVars, stateVars, pollVars, storeVars, captchaVars, queueVars >>
  \/ \E t \in LoopThreads : LoopWake(t) /\ UNCHANGED << baseVars, midVars, stateVars, pollVars, storeVars, captchaVars, queueVars >>

\* C36: after any sequence of start() and stop() calls, a stop() that gave up
\* its join while the poller slept and a later start() included, at most one
\* thread is inside a run of the poller, and a start() that finds the agent
\* running creates no thread.
C36_OnePollerThread ==
  [][/\ Cardinality({ t \in LoopThreads : a_pc'[t] = "run" }) <= 1
     /\ (a_running /\ a_calls' # a_calls /\ a_running') => a_pc' = a_pc]_vars

\* C40: a run that raises is recorded in the error log and the thread goes
\* on to sleep for the interval and test the flag again; and a thread that
\* was alive when stop() cleared the flag begins at most one more run.
C40_ContainedThenStops ==
  [][/\ \A t \in LoopThreads :
          (a_pc[t] = "run" /\ a_pc'[t] # "run") =>
            /\ a_pc'[t] = "sleep"
            /\ a_raised' => a_errors' = a_errors + 1
     /\ \A t \in LoopThreads : a_after'[t] <= 1]_vars

(***************************************************************************)
(* The download queue of DownloadManagerAgent (sub_agents.py 332-353 and   *)
(* 369-374) under calls from several threads.  SharedState.get and set are *)
(* atomic under the lock of the state (38-47).  The dict under             *)
(* download_progress is an object: update_progress changes the object it   *)
(* got and stores that object again, whatever the state holds by then.     *)
(***************************************************************************)
\* largest number of calls begun in one run
MaxQueueOps == 3

QueueThreads == { 1, 2 }
\* the dict objects: the one of SharedState.__init__ and one per call
QueueObjs == 1..(MaxQueueOps + 1)

ZeroProgress == [ current |-> 0, total |-> 0 ]

QueueInit ==
  /\ dq_len = 0
  /\ dq_ref = 1
  /\ dq_heap = [ o \in QueueObjs |-> ZeroProgress ]
  /\ dq_new = 1
  /\ dq_lock = 0
  /\ dq_pc = [ t \in QueueThreads |-> "idle" ]
  /\ dq_held = [ t \in QueueThreads |-> 0 ]
  /\ dq_ops = 0

QueueParked ==
  /\ dq_len = 0
  /\ dq_ref = 1
  /\ dq_heap = [ o \in QueueObjs |-> ZeroProgress ]
  /\ dq_new = 1
  /\ dq_lock = 0
  /\ dq_pc = [ t \in QueueThreads |-> "idle" ]
  /\ dq_held = [ t \in QueueThreads |-> 0 ]
  /\ dq_ops = 0

\* a thread may begin a call
QueueMayBegin(t) == dq_pc[t] = "idle" /\ dq_ops < MaxQueueOps

\* a new dict is stored under download_progress
StoreNewProgress(value) ==
  /\ dq_new' = dq_new + 1
  /\ dq_ref' = dq_new + 1
  /\ dq_heap' = [ dq_heap EXCEPT ![dq_new + 1] = value ]

\* add_to_queue, lines 334-337: under _queue_lock the list of the state is
\* extended in place and stored again
AddToQueueExtend(t) ==
  /\ QueueMayBegin(t)
  /\ dq_lock = 0
  /\ dq_lock' = t
  /\ dq_ops' = dq_ops + 1
  /\ \E n \in { 1, 2 } : dq_len' = dq_len + n
  /\ dq_pc' = [ dq_pc EXCEPT ![t] = "add_progress" ]
  /\ UNCHANGED << dq_ref, dq_heap, dq_new, dq_held >>

\* add_to_queue, lines 338-344: a new dict with total = len(queue); the lock
\* is released
AddToQueueProgress(t) ==
  /\ dq_pc[t] = "add_progress"
  /\ StoreNewProgress([ current |-> 0, total |-> dq_len ])
  /\ dq_lock' = 0
  /\ dq_pc' = [ dq_pc EXCEPT ![t] = "idle" ]
  /\ UNCHANGED << dq_len, dq_held, dq_ops >>

\* clear_queue, lines 349-350
ClearQueueList(t) ==
  /\ QueueMayBegin(t)
  /\ dq_lock = 0
  /\ dq_lock' = t
  /\ dq_ops' = dq_ops + 1
  /\ dq_len' = 0
  /\ dq_pc' = [ dq_pc EXCEPT ![t] = "clear_progress" ]
  /\ UNCHANGED << dq_ref, dq_heap, dq_new, dq_held >>

\* clear_queue, lines 351-353; the lock is released
ClearQueueProgress(t) ==
  /\ dq_pc[t] = "clear_progress"
  /\ StoreNewProgress(ZeroProgress)
  /\ dq_lock' = 0
  /\ dq_pc' = [ dq_pc EXCEPT ![t] = "idle" ]
  /\ UNCHANGED << dq_len, dq_held, dq_ops >>

\* update_progress, line 371: get returns the dict the state holds; the
\* method does not take _queue_lock
UpdateProgressGet(t) ==
  /\ QueueMayBegin(t)
  /\ dq_ops' = dq_ops + 1
  /\ dq_held' = [ dq_held EXCEPT ![t] = dq_ref ]
  /\ dq_pc' = [ dq_pc EXCEPT ![t] = "assign" ]
  /\ UNCHANGED << dq_len, dq_ref, dq_heap, dq_new, dq_lock >>

\* update_progress, lines 372-373: the entries of that dict are assigned
UpdateProgressAssign(t) ==
  /\ dq_pc[t] = "assign"
  /\ \E current \in { 1, 2 } :
       dq_heap' = [ dq_heap EXCEPT ![dq_held[t]].current = current ]
  /\ dq_pc' = [ dq_pc EXCEPT ![t] = "set" ]
  /\ UNCHANGED << dq_len, dq_ref, dq_new, dq_lock, dq_held, dq_ops >>

\* update_progress, line 374: that dict is stored under download_progress
UpdateProgressSet(t) ==
  /\ dq_pc[t] = "set"
  /\ dq_ref' = dq_held[t]
  /\ dq_held' = [ dq_held EXCEPT ![t] = 0 ]
  /\ dq_pc' = [ dq_pc EXCEPT ![t] = "idle" ]
  /\ UNCHANGED << dq_len, dq_heap, dq_new, dq_lock, dq_ops >>

QueueNext ==
  \/ \E t \in QueueThreads : AddToQueueExtend(t) /\ UNCHANGED << baseVars, midVars, stateVars, pollVars, storeVars, captchaVars, loopVars >>
  \/ \E t \in QueueThreads : AddToQueueProgress(t) /\ UNCHANGED << baseVars, midVars, stateVars, pollVars, storeVars, captchaVars, loopVars >>
  \/ \E t \in QueueThreads : ClearQueueList(t) /\ UNCHANGED << baseVars, midVars, stateVars, pollVars, storeVars, captchaVars, loopVars >>
  \/ \E t \in QueueThreads : ClearQueueProgress(t) /\ UNCHANGED << baseVars, midVars, stateVars, pollVars, storeVars, captchaVars, loopVars >>
  \/ \E t \in QueueThreads : UpdateProgressGet(t) /\ UNCHANGED << baseVars, midVars, stateVars, pollVars, storeVars, captchaVars, loopVars >>
  \/ \E t \in QueueThreads : UpdateProgressAssign(t) /\ UNCHANGED << baseVars, midVars, stateVars, pollVars, storeVars, captchaVars, loopVars >>
  \/ \E t \in QueueThreads : UpdateProgressSet(t) /\ UNCHANGED << baseVars, midVars, stateVars, pollVars, storeVars, captchaVars, loopVars >>

\* C39: whenever every call of add_to_queue, clear_queue and update_progress
\* has returned, download_progress.total equals len(download_queue), for
\* every interleaving of calls made from different threads.
C39_TotalMatchesQueue ==
  (\A t \in QueueThreads : dq_pc[t] = "idle") => dq_heap[dq_ref].total = dq_len

\* the sections on the CAPTCHA wait, the poller threads and the download
\* queue at rest
ExtraParked == CaptchaParked /\ LoopParked /\ QueueParked

\* the sections on filtering, discovery, batches and the error log at rest
MidParked == FilterParked /\ BrowseParked /\ BatchParked /\ ErrParked

\* the sections on the shared state, the pollers and the store at rest
AgentParked == StateParked /\ PollParked /\ StoreParked /\ ExtraParked

\* the later sections at rest
LaterParked == MidParked /\ AgentParked

(***************************************************************************)
(* Specifications.                                                         *)
(***************************************************************************)
InitFilter ==
  /\ FilterInit
  /\ CheckParked
  /\ DlParked
  /\ WebParked
  /\ LoginParked
  /\ BrowseParked
  /\ BatchParked
  /\ ErrParked
  /\ AgentParked

SpecFilter == InitFilter /\ [][FilterNext]_vars

InitBrowse ==
  /\ BrowseInit
  /\ CheckParked
  /\ DlParked
  /\ WebParked
  /\ LoginParked
  /\ FilterParked
  /\ BatchParked
  /\ ErrParked
  /\ AgentParked

SpecBrowse == InitBrowse /\ [][BrowseNext]_vars

InitBatch ==
  /\ BatchInit
  /\ CheckParked
  /\ DlParked
  /\ WebParked
  /\ LoginParked
  /\ FilterParked
  /\ BrowseParked
  /\ ErrParked
  /\ AgentParked

SpecBatch == InitBatch /\ [][BatchNext]_vars

InitErrors ==
  /\ ErrInit
  /\ CheckParked
  /\ DlParked
  /\ WebParked
  /\ LoginParked
  /\ FilterParked
  /\ BrowseParked
  /\ BatchParked
  /\ AgentParked

SpecErrors == InitErrors /\ [][ErrNext]_vars

InitQueue ==
  /\ QueueInit
  /\ CheckParked
  /\ DlParked
  /\ WebParked
  /\ LoginParked
  /\ MidParked
  /\ StateParked
  /\ PollParked
  /\ StoreParked
  /\ CaptchaParked
  /\ LoopParked

SpecQueue == InitQueue /\ [][QueueNext]_vars

InitLoop ==
  /\ LoopInit
  /\ CheckParked
  /\ DlParked
  /\ WebParked
  /\ LoginParked
  /\ MidParked
  /\ StateParked
  /\ PollParked
  /\ StoreParked
  /\ CaptchaParked
  /\ QueueParked

SpecLoop == InitLoop /\ [][LoopNext]_vars

InitCaptcha ==
  /\ CaptchaInit
  /\ CheckParked
  /\ DlParked
  /\ WebParked
  /\ LoginParked
  /\ MidParked
  /\ StateParked
  /\ PollParked
  /\ StoreParked
  /\ LoopParked
  /\ QueueParked

SpecCaptcha == InitCaptcha /\ [][CaptchaNext]_vars

InitStore ==
  /\ StoreInit
  /\ CheckParked
  /\ DlParked
  /\ WebParked
  /\ LoginParked
  /\ MidParked
  /\ StateParked
  /\ PollParked
  /\ ExtraParked

SpecStore == InitStore /\ [][StoreNext]_vars

InitPollers ==
  /\ PollInit
  /\ CheckParked
  /\ DlParked
  /\ WebParked
  /\ LoginParked
  /\ MidParked
  /\ StateParked
  /\ StoreParked
  /\ ExtraParked

SpecPollers == InitPollers /\ [][PollNext]_vars

InitState ==
  /\ StateInit
  /\ CheckParked
  /\ DlParked
  /\ WebParked
  /\ LoginParked
  /\ MidParked
  /\ PollParked
  /\ StoreParked
  /\ ExtraParked

SpecState == InitState /\ [][StateNext]_vars

InitLogin ==
  /\ LoginInit
  /\ CheckParked
  /\ DlParked
  /\ WebParked
  /\ LaterParked

SpecLogin == InitLogin /\ [][LoginNext]_vars

InitCheck ==
  /\ CheckInit
  /\ DlParked
  /\ WebParked
  /\ LoginParked
  /\ LaterParked

SpecCheck == InitCheck /\ [][CheckNext]_vars

InitDownload ==
  /\ DlInit
  /\ CheckParked
  /\ WebParked
  /\ LoginParked
  /\ LaterParked

SpecDownload == InitDownload /\ [][DlNext]_vars

InitWeb ==
  /\ WebInit
  /\ CheckParked
  /\ DlParked
  /\ LoginParked
  /\ LaterParked

SpecWeb == InitWeb /\ [][WebNext]_vars

=============================================================================
